---- MODULE Spec2Model ----
(***************************************************************************)
(* Multi-agent document pipeline of UCAC_App: the orchestrator             *)
(* (backend/orchestrator.js), the three ReAct agents                       *)
(* (backend/agents/agent1_prosit_aller.js, agent2_prosit_retour.js,        *)
(* agent3_cer.js) and the tools they call (validate_structure,             *)
(* check_coherence, parseJSON).                                            *)
(*                                                                         *)
(* One run of run(memory, mode, skipPR, onLog, onStep) is one behaviour.   *)
(* JavaScript is single threaded: the code between two awaits is one       *)
(* action; the suspension points are the callLLM and generator calls.      *)
(* The answer of the LLM and the outcome of a generator are inputs, drawn  *)
(* with \E when the awaiting code resumes.                                 *)
(***************************************************************************)
EXTENDS Integers, Sequences, FiniteSets, TLC

(***************************************************************************)
(* JavaScript values.  Every value is a record of the same shape:          *)
(*   k     : "undef" (key absent), "null", "str", "arr", "obj"             *)
(*   len   : string length / array length / number of own keys             *)
(*   q     : for a string, whether s.trim().endsWith("?")                  *)
(*   s     : the characters of a string whose content the code reads       *)
(*           (theme); <<>> for the other strings, of which only the        *)
(*           length and the final character are read                       *)
(*   items : the elements of an array / the keys of an object, as strings  *)
(* Strings that are read character by character are sequences of           *)
(* one-character strings.                                                  *)
(***************************************************************************)
Undef == [k |-> "undef", len |-> 0, q |-> FALSE, s |-> <<>>, items |-> <<>>]

Null == [k |-> "null", len |-> 0, q |-> FALSE, s |-> <<>>, items |-> <<>>]

Str(n, endsQ) == [k |-> "str", len |-> n, q |-> endsQ, s |-> <<>>, items |-> <<>>]

Text(chars) == [k |-> "str", len |-> Len(chars), q |-> FALSE, s |-> chars, items |-> <<>>]

Arr(elems) == [k |-> "arr", len |-> Len(elems), q |-> FALSE, s |-> <<>>, items |-> elems]

Obj(keys) == [k |-> "obj", len |-> Len(keys), q |-> FALSE, s |-> <<>>, items |-> keys]

\* a JSON number or boolean: neither a string, nor an array, nor an object
Num == [k |-> "num", len |-> 0, q |-> FALSE, s |-> <<>>, items |-> <<>>]

\* n array elements whose content the code never reads
Elems(n) == [i \in 1..n |-> <<"e">>]

\* JavaScript truthiness ( v || default )
Truthy(v) == v.k \in {"arr", "obj"} \/ (v.k = "str" /\ v.len > 0)

\* (variant: data[r.field] without the ?? "")
OrEmpty_raw(v) == v

\* v ?? ""  : undefined and null become the empty string
OrEmpty(v) == IF v.k \in {"undef", "null"} THEN Str(0, FALSE) ELSE v

\* v || []  /  v || {}  /  v || ""
OrElse(v, d) == IF Truthy(v) THEN v ELSE d

(***************************************************************************)
(* Documents.  A document is a JSON object; it is modelled as a function   *)
(* from every key the agents read to the value of that key, Undef when     *)
(* the key is absent.  NULL is the JavaScript null of an empty slot.       *)
(***************************************************************************)
Fields ==
  { "theme", "mots_cles", "contexte", "definition_besoins", "problematique",
    "contraintes", "generalisation", "pistes_solution", "plan_action",
    "definitions", "contexte_rappel", "besoins", "validation_hypotheses",
    "solutions", "bilan", "objectifs_savoir", "objectifs_savoir_faire",
    "realisation", "conclusion", "synthese", "methodes_utilisees",
    "references_bibliographiques" }

NullMark == [k |-> "nodoc", len |-> 0, q |-> FALSE, s |-> <<>>, items |-> <<>>]

NULL == [f \in Fields |-> NullMark]

\* the object literal { key: value, ... }
Doc(assign) == [f \in Fields |-> IF f \in DOMAIN assign THEN assign[f] ELSE Undef]

EmptyDoc == [f \in Fields |-> Undef]

\* Object.keys(doc).length
NbKeys(doc) == Cardinality({f \in Fields : doc[f].k # "undef"})

\* (variant: pa = fixed, the answer replaces the document)
Spread_replaced(a, b) == b

\* { ...a, ...b } : every own key of b replaces the key of a, the others stay
Spread(a, b) == [f \in Fields |-> IF b[f].k # "undef" THEN b[f] ELSE a[f]]

\* doc.theme = doc.theme || fallback
WithTheme(doc, fallback) ==
  [doc EXCEPT !["theme"] = IF Truthy(doc["theme"]) THEN doc["theme"] ELSE fallback]

(***************************************************************************)
(* validate_structure: the three rule tables and the common evaluation.    *)
(* check is the predicate of the rule:                                     *)
(*   "arr"  Array.isArray(d) && d.length >= min                            *)
(*   "str"  typeof d === "string" && d.length >= min                       *)
(*   "qst"  typeof d === "string" && d.trim().endsWith("?")                *)
(*   "obj"  typeof d === "object" && Object.keys(d).length >= min          *)
(***************************************************************************)
Rule(f, c, m) == [field |-> f, check |-> c, min |-> m]

RulesPA ==
  << Rule("mots_cles", "arr", 6), Rule("contexte", "str", 100),
     Rule("definition_besoins", "arr", 2), Rule("problematique", "qst", 0),
     Rule("contraintes", "arr", 3), Rule("generalisation", "str", 20),
     Rule("pistes_solution", "arr", 2), Rule("plan_action", "arr", 4) >>

RulesPR ==
  << Rule("definitions", "obj", 4), Rule("contexte_rappel", "str", 80),
     Rule("besoins", "arr", 2), Rule("contraintes", "arr", 2),
     Rule("problematique", "qst", 0), Rule("validation_hypotheses", "arr", 2),
     Rule("plan_action", "arr", 3), Rule("solutions", "arr", 2),
     Rule("bilan", "str", 60) >>

RulesCER ==
  << Rule("contexte", "str", 100), Rule("objectifs_savoir", "arr", 4),
     Rule("objectifs_savoir_faire", "arr", 4), Rule("besoins", "arr", 2),
     Rule("problematique", "qst", 0), Rule("contraintes", "arr", 3),
     Rule("realisation", "arr", 3), Rule("validation_hypotheses", "arr", 2),
     Rule("conclusion", "str", 100), Rule("synthese", "str", 200),
     Rule("methodes_utilisees", "arr", 2),
     Rule("references_bibliographiques", "arr", 3) >>

RuleCheck(r, d) ==
  CASE r.check = "arr" -> d.k = "arr" /\ d.len >= r.min
    [] r.check = "str" -> d.k = "str" /\ d.len >= r.min
    [] r.check = "qst" -> d.k = "str" /\ d.q
    [] r.check = "obj" -> d.k \in {"obj", "arr"} /\ d.len >= r.min

\* the predicate throws: typeof null === "object", and Object.keys(null) is
\* a TypeError; the other predicates guard every property access
RuleThrows(r, d) == r.check = "obj" /\ d.k = "null"

\* rules.filter(r => !r.check(data[r.field] ?? "")).map(r => `[${r.field}] ...`)
RECURSIVE FailedRules(_, _, _)
FailedRules(rules, data, i) ==
  IF i > Len(rules) THEN <<>>
  ELSE (IF RuleCheck(rules[i], OrEmpty(data[rules[i].field]))
          THEN <<>> ELSE << rules[i].field >>)
       \o FailedRules(rules, data, i + 1)

\* (variant: Math.floor instead of Math.round)
RoundPct_floor(x, n) == (100 * x) \div n

\* Math.round(x / n * 100), x and n non-negative integers, n > 0
RoundPct(x, n) == (200 * x + n) \div (2 * n)

\* validate_structure(data) throws
ValidateThrows(rules, data) ==
  \E i \in 1..Len(rules) : RuleThrows(rules[i], OrEmpty(data[rules[i].field]))

Validate(rules, data) ==
  LET errors == FailedRules(rules, data, 1)
  IN  [ valid  |-> Len(errors) = 0,
        errors |-> errors,
        score  |-> RoundPct(Len(rules) - Len(errors), Len(rules)) ]

validate_structure_PA(data) == Validate(RulesPA, data)

validate_structure_PR(data) == Validate(RulesPR, data)

validate_structure_CER(data) == Validate(RulesCER, data)

NoValidation == [valid |-> FALSE, errors |-> <<>>, score |-> 0 - 1]

(***************************************************************************)
(* Strings read character by character (themes, keywords, definition       *)
(* keys).                                                                  *)
(***************************************************************************)
\* String.prototype.toLowerCase on the letters the model's strings use
LowerChar(c) ==
  CASE c = "C" -> "c" [] c = "U" -> "u" [] c = "N" -> "n" [] c = "S" -> "s"
    [] c = "M" -> "m" [] OTHER -> c

ToLowerCase(str) == [i \in 1..Len(str) |-> LowerChar(str[i])]

\* str.slice(0, n)
Slice0(str, n) == SubSeq(str, 1, IF n < Len(str) THEN n ELSE Len(str))

\* hay.includes(needle)
Includes(hay, needle) ==
  \E i \in 0..(Len(hay) - Len(needle)) :
    SubSeq(hay, i + 1, i + Len(needle)) = needle

\* the elements of seq in order of first occurrence ( [...new Set(seq)] )
RECURSIVE SetOrder(_, _)
SetOrder(seq, i) ==
  IF i > Len(seq) THEN <<>>
  ELSE LET rest == SetOrder(seq, i + 1)
       IN  << seq[i] >> \o SelectSeq(rest, LAMBDA x : x # seq[i])

\* Object.keys(v) for a string, an array (the indices) or an object
ObjectKeys(v) ==
  CASE v.k = "obj" -> v.items
    [] v.k \in {"arr", "str"} -> [i \in 1..v.len |-> << ToString(i - 1) >>]
    [] OTHER -> <<>>

\* doc?.key  (doc may be null)
Get(doc, f) == IF doc = NULL THEN Undef ELSE doc[f]

(***************************************************************************)
(* check_coherence(pa, pr) of Agent 2.  An issue is its message: the id    *)
(* of the template and the strings interpolated into it.                   *)
(* threw: (pa.mots_cles || []).map is a TypeError when mots_cles is a      *)
(* non-empty string or an object.                                          *)
(***************************************************************************)
Issue(id, args) == [id |-> id, args |-> args]

\* (variant: the count check without its guards)
CountMismatch_unguarded(paHypos, prValidations) == prValidations < paHypos

\* paHypos > 0 && prValidations > 0 && prValidations < paHypos
CountMismatch(paHypos, prValidations) ==
  paHypos > 0 /\ prValidations > 0 /\ prValidations < paHypos

check_coherence(pa, pr) ==
  IF pa = NULL
  THEN [threw |-> FALSE, coherent |-> FALSE,
        issues |-> << Issue("pa_absent", <<>>) >>]
  ELSE
    LET paTheme == ToLowerCase(OrElse(pa["theme"], Text(<<>>)).s)
        prTheme == ToLowerCase(OrElse(Get(pr, "theme"), Text(<<>>)).s)
        themeIssue ==
          IF Len(prTheme) > 0 /\ prTheme # paTheme
             /\ ~Includes(prTheme, Slice0(paTheme, 10))
          THEN << Issue("theme", << pa["theme"].s, Get(pr, "theme").s >>) >>
          ELSE <<>>
        paHypos == IF pa["pistes_solution"].k = "arr"
                   THEN pa["pistes_solution"].len ELSE 0
        prValidations == IF Get(pr, "validation_hypotheses").k = "arr"
                         THEN Get(pr, "validation_hypotheses").len ELSE 0
        countIssue ==
          IF CountMismatch(paHypos, prValidations)
          THEN << Issue("count", <<>>) >> ELSE <<>>
        mots    == OrElse(pa["mots_cles"], Arr(<<>>))
        paMots  == SetOrder([i \in 1..Len(mots.items) |->
                               ToLowerCase(mots.items[i])], 1)
        defKeys == ObjectKeys(OrElse(Get(pr, "definitions"), Obj(<<>>)))
        prDefs  == {ToLowerCase(defKeys[i]) : i \in 1..Len(defKeys)}
        missing == SelectSeq(paMots,
                     LAMBDA m : ~\E d \in prDefs : Includes(d, Slice0(m, 5)))
        termIssue ==
          IF Len(missing) > 2
          THEN << Issue("terms", Slice0(missing, 3)) >> ELSE <<>>
        issues == themeIssue \o countIssue \o termIssue
    IN  IF mots.k # "arr"
        THEN [threw |-> TRUE, coherent |-> FALSE, issues |-> <<>>]
        ELSE [threw |-> FALSE, coherent |-> Len(issues) = 0, issues |-> issues]

(***************************************************************************)
(* parseJSON as the agents see it.  A raw LLM answer is described by what  *)
(* parseJSON finds in it: whether it holds a '{' or '[' at all, whether    *)
(* the text cut out (and repaired) is accepted by JSON.parse, and the      *)
(* value JSON.parse then returns.                                          *)
(***************************************************************************)
Raw(found, parses, value) == [found |-> found, parses |-> parses, value |-> value]

parseJSON(raw) ==
  IF ~raw.found THEN [ok |-> FALSE, err |-> "NoJsonFound"]
  ELSE IF ~raw.parses THEN [ok |-> FALSE, err |-> "SyntaxError"]
  ELSE [ok |-> TRUE, err |-> "none"]

(***************************************************************************)
(* Inputs of a run: the request the server receives and the answers the    *)
(* LLM may give.  The documents below have the shapes the agents ask the   *)
(* LLM for; each set holds a valid answer and answers that break a rule.   *)
(***************************************************************************)
ThemeCloud == <<"C", "l", "o", "u", "d", " ", "m", "i", "g", "r", "a", "t", "i", "o", "n">>

ThemeOther == <<"U", "n", "r", "e", "l", "a", "t", "e", "d", " ", "t", "o", "p", "i", "c">>

ThemeServerDefault == <<"P", "r", "o", "s", "i", "t", " ", "U", "C", "A", "C", "-", "I", "C", "A", "M">>

ThemeMemoryDefault == <<"P", "r", "o", "s", "i", "t">>

Keywords ==
  << <<"c", "l", "o", "u", "d">>,
     <<"m", "i", "g", "r", "a">>,
     <<"s", "e", "c", "u", "r">>,
     <<"a", "z", "u", "r", "e">>,
     <<"c", "o", "s", "t", "s">>,
     <<"a", "u", "d", "i", "t">> >>

\* a Prosit Aller that passes the 8 rules
PAValid ==
  Doc([ theme |-> Text(ThemeCloud), mots_cles |-> Arr(Keywords),
        contexte |-> Str(150, FALSE), definition_besoins |-> Arr(Elems(3)),
        problematique |-> Str(40, TRUE), contraintes |-> Arr(Elems(4)),
        generalisation |-> Str(30, FALSE), pistes_solution |-> Arr(Elems(3)),
        plan_action |-> Arr(Elems(4)) ])

\* 5 keywords instead of 6 and no theme
PAShort ==
  [PAValid EXCEPT !["mots_cles"] = Arr(SubSeq(Keywords, 1, 5)),
                  !["theme"] = Undef]

\* the keywords given as one comma separated string
PAStringKw == [PAValid EXCEPT !["mots_cles"] = Str(40, FALSE)]

\* a Prosit Aller as the import feature may produce it: theme only
PAImported == Doc([ theme |-> Text(ThemeCloud) ])

\* a Prosit Retour that passes the 9 rules and agrees with PAValid
PRValid ==
  Doc([ theme |-> Text(ThemeCloud), definitions |-> Obj(Keywords),
        contexte_rappel |-> Str(90, FALSE), besoins |-> Arr(Elems(2)),
        contraintes |-> Arr(Elems(2)), problematique |-> Str(40, TRUE),
        validation_hypotheses |-> Arr(Elems(3)), plan_action |-> Arr(Elems(4)),
        solutions |-> Arr(Elems(3)), bilan |-> Str(100, FALSE) ])

\* passes the rules but disagrees with PAValid on theme, count and terms
PRIncoherent ==
  [PRValid EXCEPT !["theme"] = Text(ThemeOther),
                  !["definitions"] = Obj(<< <<"a">>, <<"b">>, <<"c">>, <<"d">> >>),
                  !["validation_hypotheses"] = Arr(Elems(2))]

\* bilan too short
PRShort == [PRValid EXCEPT !["bilan"] = Str(10, FALSE)]

\* a CER that passes the 12 rules
CERValid ==
  Doc([ theme |-> Text(ThemeCloud), contexte |-> Str(120, FALSE),
        objectifs_savoir |-> Arr(Elems(5)),
        objectifs_savoir_faire |-> Arr(Elems(5)), besoins |-> Arr(Elems(2)),
        problematique |-> Str(40, TRUE), contraintes |-> Arr(Elems(3)),
        realisation |-> Arr(Elems(4)), validation_hypotheses |-> Arr(Elems(2)),
        conclusion |-> Str(150, FALSE), synthese |-> Str(250, FALSE),
        methodes_utilisees |-> Arr(Elems(3)),
        references_bibliographiques |-> Arr(Elems(5)) ])

\* synthese too short and problematique not a question
CERShort ==
  [CERValid EXCEPT !["synthese"] = Str(50, FALSE),
                   !["problematique"] = Str(40, FALSE),
                   !["theme"] = Undef]

\* callLLM either throws or returns the text of the answer
Answer(raw) == [threw |-> FALSE, raw |-> raw]

\* the answers that give the agent no value: callLLM throws, the text holds
\* no '{' or '[', the text holds one but JSON.parse rejects it
Failures(blank) ==
  { [threw |-> TRUE, raw |-> Raw(FALSE, FALSE, blank)],
    Answer(Raw(FALSE, FALSE, blank)), Answer(Raw(TRUE, FALSE, blank)) }

Json(value) == Raw(TRUE, TRUE, value)

DraftAnswers(agent) ==
  Failures(EmptyDoc) \cup
  { Answer(Json(d)) :
      d \in CASE agent = "agent1" -> {PAValid, PAShort, PAStringKw, EmptyDoc}
              [] agent = "agent2" -> {PRValid, PRIncoherent, PRShort}
              [] agent = "agent3" -> {CERValid, CERShort} }

\* answers to the correction prompt: the failing key corrected, nothing
\* corrected, the failing key corrected and a valid key spoiled
FixAnswers(agent) ==
  Failures(EmptyDoc) \cup
  { Answer(Json(d)) :
      d \in CASE agent = "agent1" ->
                   { Doc([mots_cles |-> Arr(Keywords)]), EmptyDoc,
                     Doc([mots_cles |-> Arr(Keywords), contexte |-> Str(10, FALSE)]) }
              [] agent = "agent2" ->
                   { Doc([bilan |-> Str(100, FALSE)]), EmptyDoc }
              [] agent = "agent3" ->
                   { Doc([synthese |-> Str(250, FALSE),
                          problematique |-> Str(40, TRUE)]),
                     Doc([synthese |-> Str(250, FALSE)]) } }

(***************************************************************************)
(* The planning answer.  Of the plan object the agents read one list with  *)
(* ?.join(", ") (enjeux, themes_a_approfondir, sections_prioritaires) and  *)
(* interpolate scalars; list is the kind of that list value.               *)
(***************************************************************************)
Plan(listKind) == [list |-> listKind]

NoPlan == Plan("none")

PlanAnswers ==
  Failures(NoPlan) \cup
  { Answer(Json(Plan(kind))) : kind \in {"arr", "undef", "str"} }

\* plan.list?.join(", ") throws a TypeError unless list is an array,
\* undefined or null
JoinThrows(p) == p.list \notin {"arr", "undef", "null"}

(***************************************************************************)
(* State of one request POST /api/run.                                     *)
(***************************************************************************)
VARIABLES
  request,      \* the body of the request: theme, prositAller, prositRetour
  memory,       \* the shared memory created by createMemory
  mode,         \* argument of run
  skipPR,       \* argument of run
  pc,           \* the await (or call boundary) the run is at
  doc,          \* the agent's local document: let pa / pr / cer
  plan,         \* the agent's local plan: analysis / plan
  v1,           \* the agent's first validation result
  v2,           \* the agent's validation result after correction
  llmCalls,     \* the calls of callLLM made so far: agent, purpose, input
  llmAnswers,   \* what each call that has resolved gave, in order
  renderCalls,  \* the calls of the generators made so far
  slotWrites,   \* the assignments memory.<slot> = ... made so far, in order
  trace,        \* runAgent invocations, returns and throws, in order
  onLogCalls,   \* the calls of the onLog callback so far
  onStepCalls,  \* the calls of the onStep callback so far
  error,        \* the exception run has thrown to its caller, "none" if none
  result,       \* the value run has returned to its caller, <<>> before
  call,         \* a tool called on its own: the function and its arguments
  ret,          \* what that call gave: pending, returned a value, threw
  response,     \* the last SSE event of the server: done or error
  aborted,      \* "no", or the await at which the client closed the connection
  parked,       \* a second request in the same process: its run, suspended
  active        \* which of the two requests the variables above belong to

vars == << request, memory, mode, skipPR, pc, doc, plan, v1, v2, llmCalls,
           llmAnswers, renderCalls, slotWrites, trace, onLogCalls, onStepCalls,
           error, result, response, call, ret, aborted, parked, active >>

\* the connection of the request is open; once the client has closed it,
\* aborted names the await the run was suspended at
NotAborted == "no"

\* no second request is served
NoParked == [pc |-> "none"]

\* no tool is called on its own during a run
NoCall == [fn |-> "none"]

Pending == [status |-> "pending"]

Returned(value) == [status |-> "returned", value |-> value]

Threw(e) == [status |-> "threw", error |-> e]

NoFile == "null"

NoFiles == [prositAller |-> NoFile, prositRetour |-> NoFile, cer |-> NoFile]

\* the SSE event that ends the response: send("done", ...) or send("error", ...)
Event(name, message, mem) ==
  [ event |-> name, message |-> message, files |-> mem.files,
    warnings |-> mem.coherenceWarnings, prositAller |-> mem.prositAller,
    prositRetour |-> mem.prositRetour, cer |-> mem.cer ]

NoResponse ==
  [ event |-> "none", message |-> "none", files |-> NoFiles, warnings |-> <<>>,
    prositAller |-> NULL, prositRetour |-> NULL, cer |-> NULL ]

Modes == {"full", "from_pa", "from_pr", "other"}

\* createMemory(params); ts and startedAt are never read and are left out
createMemory(params) ==
  [ theme        |-> OrElse(params.theme, Text(ThemeMemoryDefault)),
    prositAller  |-> params.prositAller,
    prositRetour |-> params.prositRetour,
    cer          |-> NULL,
    files        |-> NoFiles,
    logs         |-> <<>>,
    coherenceWarnings |-> <<>> ]

\* (prositRetour || prositAller || {}).theme of the request body
BodyTheme(pa, pr) == Get(IF pr # NULL THEN pr ELSE IF pa # NULL THEN pa ELSE EmptyDoc, "theme")

\* POST /api/run up to the call of run: a request without theme and without
\* imported document is answered 400 and starts no run
Init ==
  \E theme \in {Undef, Text(ThemeCloud)},
     pa \in {NULL, PAValid, PAImported},
     pr \in {NULL, PRValid},
     m \in Modes, skip \in BOOLEAN :
    /\ Truthy(theme) \/ pa # NULL \/ pr # NULL
    /\ request = [theme |-> theme, prositAller |-> pa, prositRetour |-> pr]
    /\ memory = createMemory(
         [ theme |-> OrElse(theme, OrElse(BodyTheme(pa, pr), Text(ThemeServerDefault))),
           prositAller |-> pa, prositRetour |-> pr ])
    /\ mode = m
    /\ skipPR = skip
    /\ pc = "run"
    /\ doc = NULL
    /\ plan = NoPlan
    /\ v1 = NoValidation
    /\ v2 = NoValidation
    /\ llmCalls = <<>>
    /\ llmAnswers = <<>>
    /\ renderCalls = <<>>
    /\ slotWrites = <<>>
    /\ trace = <<>>
    /\ onLogCalls = <<>>
    /\ onStepCalls = <<>>
    /\ error = "none"
    /\ result = <<>>
    /\ response = NoResponse
    /\ call = NoCall
    /\ ret = Pending
    /\ aborted = NotAborted
    /\ parked = NoParked
    /\ active = 1

(***************************************************************************)
(* Helpers shared by the actions.                                          *)
(***************************************************************************)
\* the file whose code runs for an agent name
SourceOf(agent) ==
  CASE agent = "orchestrator" -> "orchestrator.js"
    [] agent = "agent1" -> "agent1_prosit_aller.js"
    [] agent = "agent2" -> "agent2_prosit_retour.js"
    [] agent = "agent3" -> "agent3_cer.js"

\* one log entry { agent, type, msg }; the message is identified by the
\* statement that builds it: file and line
Entry(agent, type, file, line) ==
  [agent |-> agent, type |-> type, msg |-> [file |-> file, line |-> line]]

\* the log wrapper of run, applied to the calls of one action in order: each
\* entry is pushed on memory.logs and handed to onLog.  mem is the memory
\* with the other assignments of the action applied
log(mem, entries) ==
  /\ memory' = [mem EXCEPT !.logs = @ \o entries]
  /\ onLogCalls' = onLogCalls \o entries

\* the wrapper (type, msg) => log("agentN", type, msg) given to runAgent
Tag(agent, file, calls) ==
  [i \in 1..Len(calls) |-> Entry(agent, calls[i][1], file, calls[i][2])]

\* the callbacks run hands to the three agents, applied to the onLog calls
\* of the agent's own file
A1(calls) == Tag("agent1", "agent1_prosit_aller.js", calls)

\* (variant: the callback given to Agent 2 carries the tag of Agent 1)
A2_mistagged(calls) == Tag("agent1", "agent2_prosit_retour.js", calls)

A2(calls) == Tag("agent2", "agent2_prosit_retour.js", calls)

A3(calls) == Tag("agent3", "agent3_cer.js", calls)

Call(agent, purpose, input) == [agent |-> agent, purpose |-> purpose, input |-> input]

Ev(kind, agent) == [ev |-> kind, agent |-> agent]

\* (variant: run catches the exception of an agent and goes on to Agent 3)
Throw_caught(agent, e) ==
  /\ pc' = "stage3"
  /\ error' = e
  /\ trace' = Append(trace, Ev("throw", agent))

\* an exception leaves runAgent and run, neither of which catches anything:
\* run rejects with it and nothing after the throwing statement is executed
Throw(agent, e) ==
  /\ pc' = "threw"
  /\ error' = e
  /\ trace' = Append(trace, Ev("throw", agent))

\* what an agent gets out of an LLM answer
Fail(e) == [ok |-> FALSE, err |-> e]

\* (variant: a plan that cannot be extracted is replaced by an empty plan)
PlanOutcome_graceful(ans) ==
  IF ans.threw THEN Fail("LLMError")
  ELSE IF ~parseJSON(ans.raw).ok THEN [ok |-> TRUE, err |-> "none"]
  ELSE IF JoinThrows(ans.raw.value) THEN Fail("TypeError")
  ELSE [ok |-> TRUE, err |-> "none"]

\* the planning answer: const plan = parseJSON(await callLLM(...)) followed
\* by the onLog calls that interpolate plan.list?.join(", ")
PlanOutcome(ans) ==
  IF ans.threw THEN Fail("LLMError")
  ELSE IF ~parseJSON(ans.raw).ok THEN Fail(parseJSON(ans.raw).err)
  ELSE IF JoinThrows(ans.raw.value) THEN Fail("TypeError")
  ELSE [ok |-> TRUE, err |-> "none"]

\* (variant: a document that cannot be extracted is taken to be {})
JsonOutcome_lenient(ans) ==
  IF ans.threw THEN Fail("LLMError") ELSE [ok |-> TRUE, err |-> "none"]

\* the drafting and the correction answer: parseJSON(await callLLM(...))
JsonOutcome(ans) ==
  IF ans.threw THEN Fail("LLMError")
  ELSE IF ~parseJSON(ans.raw).ok THEN Fail(parseJSON(ans.raw).err)
  ELSE [ok |-> TRUE, err |-> "none"]

\* (variant: the correction is requested whatever the first validation says)
NeedsFix_always(v) == TRUE

\* if (!v1.valid) : the correction call is made
NeedsFix(v) == ~v.valid

\* the agents the orchestrator delegates to
\* (variant: Agent 1 skipped only when the Prosit Aller is imported)
RunsAgent1_unlessFromPa(m) == m # "from_pa"

RunsAgent1(m) == m = "full"

\* (variant: skipPR not consulted)
RunsAgent2_ignoresSkip(m, skip) == m # "from_pr"

RunsAgent2(m, skip) == m # "from_pr" /\ ~skip

(***************************************************************************)
(* The orchestrator: run(memory, mode, skipPR, onLog, onStep).             *)
(***************************************************************************)
\* run up to the call of Agent1.runAgent or, without Agent 1, to the
\* Agent 2 decision
Run_Start ==
  /\ pc = "run"
  /\ log(memory,
       << Entry("orchestrator", "thought", "orchestrator.js", 121),
          Entry("orchestrator", "thought", "orchestrator.js", 122),
          Entry("orchestrator", "observation", "orchestrator.js", 123),
          Entry("orchestrator", "observation", "orchestrator.js", 124) >>
       \o (IF RunsAgent1(mode)
           THEN << Entry("orchestrator", "action", "orchestrator.js", 129) >>
           ELSE << Entry("orchestrator", "observation", "orchestrator.js", 133) >>))
  /\ onStepCalls' = Append(onStepCalls, IF RunsAgent1(mode) THEN 128 ELSE 134)
  /\ trace' = IF RunsAgent1(mode) THEN Append(trace, Ev("call", "agent1")) ELSE trace
  /\ pc' = IF RunsAgent1(mode) THEN "agent1" ELSE "stage2"
  /\ UNCHANGED << aborted, parked, active, call, ret, result, request, llmAnswers, slotWrites, mode, skipPR, doc, plan, v1, v2, llmCalls, renderCalls, error, response >>

\* Agent 1 has returned
Run_AfterAgent1 ==
  /\ pc = "after1"
  /\ log(memory, << Entry("orchestrator", "observation", "orchestrator.js", 131) >>)
  /\ pc' = "stage2"
  /\ UNCHANGED << aborted, parked, active, call, ret, result, request, llmAnswers, slotWrites, mode, skipPR, doc, plan, v1, v2, llmCalls, renderCalls, trace,
                  onStepCalls, error, response >>

\* the Agent 2 decision
Run_Stage2 ==
  /\ pc = "stage2"
  /\ IF mode = "from_pr"
     THEN /\ log(memory, << Entry("orchestrator", "observation", "orchestrator.js", 139) >>)
          /\ onStepCalls' = Append(onStepCalls, 140)
     ELSE IF ~RunsAgent2(mode, skipPR)
     THEN /\ log(memory, << Entry("orchestrator", "observation", "orchestrator.js", 142) >>)
          /\ onStepCalls' = Append(onStepCalls, 143)
     ELSE /\ log(memory, << Entry("orchestrator", "action", "orchestrator.js", 146) >>)
          /\ onStepCalls' = Append(onStepCalls, 145)
  /\ trace' = IF RunsAgent2(mode, skipPR) THEN Append(trace, Ev("call", "agent2")) ELSE trace
  /\ pc' = IF RunsAgent2(mode, skipPR) THEN "agent2" ELSE "stage3"
  /\ UNCHANGED << aborted, parked, active, call, ret, result, request, llmAnswers, slotWrites, mode, skipPR, doc, plan, v1, v2, llmCalls, renderCalls, error, response >>

\* Agent 2 has returned
Run_AfterAgent2 ==
  /\ pc = "after2"
  /\ log(memory, << Entry("orchestrator", "observation", "orchestrator.js", 148) >>)
  /\ pc' = "stage3"
  /\ UNCHANGED << aborted, parked, active, call, ret, result, request, llmAnswers, slotWrites, mode, skipPR, doc, plan, v1, v2, llmCalls, renderCalls, trace,
                  onStepCalls, error, response >>

\* Agent 3 is called whatever the mode
Run_Stage3 ==
  /\ pc = "stage3"
  /\ log(memory, << Entry("orchestrator", "action", "orchestrator.js", 153) >>)
  /\ onStepCalls' = Append(onStepCalls, 152)
  /\ trace' = Append(trace, Ev("call", "agent3"))
  /\ pc' = "agent3"
  /\ UNCHANGED << aborted, parked, active, call, ret, result, request, llmAnswers, slotWrites, mode, skipPR, doc, plan, v1, v2, llmCalls, renderCalls, error, response >>

\* (variant: Object.values(memory.files).length, without filter(Boolean))
Generated_all(mem) == Cardinality(DOMAIN mem.files)

\* Object.values(memory.files).filter(Boolean).length
Generated(mem) == Cardinality({k \in DOMAIN mem.files : mem.files[k] # NoFile})

\* the entry of line 159: `Pipeline complet. ${generated} fichier(s)
\* généré(s). Avertissements : ${memory.coherenceWarnings.length}`
Summary(mem) ==
  [ agent |-> "orchestrator", type |-> "result",
    msg |-> [ file |-> "orchestrator.js", line |-> 159,
              generated |-> Generated(mem),
              warnings |-> Len(mem.coherenceWarnings) ] ]

\* (variant: the log is left out of the returned object)
RunResult_noLogs(mem) ==
  [ prositAller  |-> mem.prositAller,
    prositRetour |-> mem.prositRetour,
    cer          |-> mem.cer,
    files        |-> mem.files ]

\* return { prositAller, prositRetour, cer, files, logs }
RunResult(mem) ==
  [ prositAller  |-> mem.prositAller,
    prositRetour |-> mem.prositRetour,
    cer          |-> mem.cer,
    files        |-> mem.files,
    logs         |-> mem.logs ]

\* Agent 3 has returned: the summary entries and the return of run
Run_Finish ==
  /\ pc = "after3"
  /\ log(memory,
       << Entry("orchestrator", "observation", "orchestrator.js", 155),
          Summary(memory) >>
       \o (IF Len(memory.coherenceWarnings) > 0
           THEN << Entry("orchestrator", "observation", "orchestrator.js", 161) >>
           ELSE <<>>))
  /\ pc' = "returned"
  /\ result' = << RunResult(memory') >>
  /\ UNCHANGED << aborted, parked, active, call, ret, request, llmAnswers, slotWrites, mode, skipPR, doc, plan, v1, v2, llmCalls, renderCalls, trace,
                  onStepCalls, error, response >>

(***************************************************************************)
(* The caller of run: POST /api/run of server.js.                          *)
(***************************************************************************)
Server_Done ==
  /\ pc = "returned"
  /\ response' = Event("done", "none", memory)
  /\ pc' = "end"
  /\ UNCHANGED << aborted, parked, active, call, ret, result, request, llmAnswers, slotWrites, memory, mode, skipPR, doc, plan, v1, v2, llmCalls, renderCalls,
                  trace, onLogCalls, onStepCalls, error >>

Server_Error ==
  /\ pc = "threw"
  /\ response' = [NoResponse EXCEPT !.event = "error", !.message = error]
  /\ pc' = "end"
  /\ UNCHANGED << aborted, parked, active, call, ret, result, request, llmAnswers, slotWrites, memory, mode, skipPR, doc, plan, v1, v2, llmCalls, renderCalls,
                  trace, onLogCalls, onStepCalls, error >>

(***************************************************************************)
(* What the three agents share: the slot and the file an agent owns, the   *)
(* await it is suspended at, and the end of the ReAct loop.                *)
(***************************************************************************)
Agents == {"agent1", "agent2", "agent3"}

\* (variant: Agent 2 assigns the slot of Agent 1)
Slot_copied(agent) ==
  CASE agent = "agent1" -> "prositAller"
    [] agent = "agent2" -> "prositAller"
    [] agent = "agent3" -> "cer"

\* memory.prositAller / memory.prositRetour / memory.cer, and the key of
\* memory.files
Slot(agent) ==
  CASE agent = "agent1" -> "prositAller"
    [] agent = "agent2" -> "prositRetour"
    [] agent = "agent3" -> "cer"

\* path.join(memory.outputDir, `01_Prosit_Aller_${memory.slug}.docx`) ...
OutputPath(agent) ==
  CASE agent = "agent1" -> "01_Prosit_Aller_<slug>.docx"
    [] agent = "agent2" -> "02_Prosit_Retour_<slug>.pptx"
    [] agent = "agent3" -> "03_CER_<slug>.docx"

Render(agent, d) == [agent |-> agent, doc |-> d, path |-> OutputPath(agent)]

AwaitRender(agent) ==
  CASE agent = "agent1" -> "a1_render"
    [] agent = "agent2" -> "a2_render"
    [] agent = "agent3" -> "a3_render"

\* what a resolved call gave: callLLM threw, or the text it returned held
\* (found) a JSON value that JSON.parse accepts (parses)
Heard(ans) == [threw |-> ans.threw, found |-> ans.raw.found, parses |-> ans.raw.parses]

\* (variant: a document that fails its rules is refused instead of rendered)
Deliver_gated(agent, mem, d, entries) ==
  IF Validate(CASE agent = "agent1" -> RulesPA [] agent = "agent2" -> RulesPR
                [] agent = "agent3" -> RulesCER, d).valid
  THEN /\ log([mem EXCEPT ![Slot(agent)] = d], entries)
       /\ slotWrites' = Append(slotWrites, Slot(agent))
       /\ renderCalls' = Append(renderCalls, Render(agent, d))
       /\ pc' = AwaitRender(agent)
       /\ UNCHANGED << trace, error >>
  ELSE /\ Throw(agent, "ValidationError")
       /\ UNCHANGED << memory, onLogCalls, slotWrites, renderCalls >>

\* memory.<slot> = d; the onLog calls up to the generator call; the call of
\* the generator, at which the agent is suspended
Deliver(agent, mem, d, entries) ==
  /\ log([mem EXCEPT ![Slot(agent)] = d], entries)
  /\ slotWrites' = Append(slotWrites, Slot(agent))
  /\ renderCalls' = Append(renderCalls, Render(agent, d))
  /\ pc' = AwaitRender(agent)
  /\ UNCHANGED << trace, error >>

\* (variant: the path of the generated file is not recorded)
Complete_unfiled(agent, entries, after) ==
  /\ log(memory, entries)
  /\ trace' = Append(trace, Ev("return", agent))
  /\ pc' = after

\* the generator has returned: memory.files.<slot> = outputPath, the result
\* entry, return to run
Complete(agent, entries, after) ==
  /\ log([memory EXCEPT !.files[Slot(agent)] = OutputPath(agent)], entries)
  /\ trace' = Append(trace, Ev("return", agent))
  /\ pc' = after

(***************************************************************************)
(* Agent 1 (agents/agent1_prosit_aller.js): runAgent(memory, onLog).       *)
(***************************************************************************)
\* from the entry of runAgent to the await of the analysis call
Agent1_Plan ==
  /\ pc = "agent1"
  /\ log(memory, A1(<< <<"thought", 63>>, <<"thought", 64>>, <<"action", 67>> >>))
  /\ llmCalls' = Append(llmCalls, Call("agent1", "plan", Doc([theme |-> memory.theme])))
  /\ pc' = "a1_plan"
  /\ UNCHANGED << aborted, parked, active, call, ret, result, request, mode, skipPR, doc, plan, v1, v2, llmAnswers, renderCalls,
                  slotWrites, trace, onStepCalls, error, response >>

\* the analysis answer arrives: parseJSON, two observations, the drafting call
Agent1_Draft ==
  /\ pc = "a1_plan"
  /\ \E ans \in PlanAnswers :
       /\ llmAnswers' = Append(llmAnswers, Heard(ans))
       /\ IF ~PlanOutcome(ans).ok
          THEN /\ Throw("agent1", PlanOutcome(ans).err)
               /\ UNCHANGED << memory, onLogCalls, plan, llmCalls >>
          ELSE /\ plan' = ans.raw.value
               /\ log(memory, A1(<< <<"observation", 76>>, <<"observation", 77>>,
                                    <<"thought", 80>>, <<"action", 83>> >>))
               /\ llmCalls' = Append(llmCalls,
                    Call("agent1", "draft", Doc([theme |-> memory.theme])))
               /\ pc' = "a1_draft"
               /\ UNCHANGED << trace, error >>
  /\ UNCHANGED << aborted, parked, active, call, ret, result, request, mode, skipPR, doc, v1, v2, renderCalls, slotWrites,
                  onStepCalls, response >>

\* the draft arrives: parseJSON, validate_structure, then either the
\* correction call or the write to memory and the call of the generator
Agent1_Validate ==
  /\ pc = "a1_draft"
  /\ \E ans \in DraftAnswers("agent1") :
       /\ llmAnswers' = Append(llmAnswers, Heard(ans))
       /\ IF ~JsonOutcome(ans).ok
          THEN /\ Throw("agent1", JsonOutcome(ans).err)
               /\ UNCHANGED << memory, onLogCalls, doc, v1, llmCalls, renderCalls,
                               slotWrites >>
          ELSE LET pa == WithTheme(ans.raw.value, memory.theme)
                   v  == validate_structure_PA(pa)
                   checked == << <<"action", 122>>, <<"observation", 126>> >>
               IN  /\ doc' = pa
                   /\ v1' = v
                   /\ IF NeedsFix(v)
                      THEN /\ log(memory, A1(checked \o
                                << <<"thought", 130>>, <<"action", 133>> >>))
                           /\ llmCalls' = Append(llmCalls, Call("agent1", "fix", pa))
                           /\ pc' = "a1_fix"
                           /\ UNCHANGED << renderCalls, slotWrites, trace, error >>
                      ELSE /\ Deliver("agent1", memory, pa, A1(checked \o
                                << <<"thought", 148>>, <<"action", 153>>,
                                   <<"action", 157>> >>))
                           /\ UNCHANGED llmCalls
  /\ UNCHANGED << aborted, parked, active, call, ret, result, request, mode, skipPR, plan, v2, onStepCalls, response >>

\* the corrected document arrives: parseJSON, merge, second validation,
\* write to memory and call of the generator
Agent1_Fix ==
  /\ pc = "a1_fix"
  /\ \E ans \in FixAnswers("agent1") :
       /\ llmAnswers' = Append(llmAnswers, Heard(ans))
       /\ IF ~JsonOutcome(ans).ok
          THEN /\ Throw("agent1", JsonOutcome(ans).err)
               /\ UNCHANGED << memory, onLogCalls, doc, v2, renderCalls, slotWrites >>
          ELSE LET pa == Spread(doc, ans.raw.value)
               IN  /\ doc' = pa
                   /\ v2' = validate_structure_PA(pa)
                   /\ Deliver("agent1", memory, pa,
                        A1(<< <<"observation", 145>>, <<"thought", 146>>,
                              <<"action", 153>>, <<"action", 157>> >>))
  /\ UNCHANGED << aborted, parked, active, call, ret, result, request, mode, skipPR, plan, v1, llmCalls, onStepCalls, response >>

\* the generator returns or throws
Agent1_Done ==
  /\ pc = "a1_render"
  /\ \E rendered \in BOOLEAN :
       IF ~rendered
       THEN /\ Throw("agent1", "RenderError")
            /\ UNCHANGED << memory, onLogCalls >>
       ELSE /\ Complete("agent1", A1(<< <<"result", 162>> >>), "after1")
            /\ UNCHANGED error
  /\ UNCHANGED << aborted, parked, active, call, ret, result, request, mode, skipPR, doc, plan, v1, v2, llmCalls, llmAnswers,
                  renderCalls, slotWrites, onStepCalls, response >>

(***************************************************************************)
(* Agent 2 (agents/agent2_prosit_retour.js): runAgent(memory, onLog).      *)
(***************************************************************************)
\* (variant: the guard is missing)
MissingPrerequisite_unchecked(mem) == FALSE

\* if (!memory.prositAller) throw ...
MissingPrerequisite(mem) == mem.prositAller = NULL

\* (variant: push(coherence.issues[0]) instead of push(...coherence.issues))
Warned_firstOnly(mem, coherence) ==
  IF ~coherence.coherent
  THEN [mem EXCEPT !.coherenceWarnings = @ \o SubSeq(coherence.issues, 1, 1)]
  ELSE mem

\* if (!coherence.coherent) memory.coherenceWarnings.push(...coherence.issues)
Warned(mem, coherence) ==
  IF ~coherence.coherent
  THEN [mem EXCEPT !.coherenceWarnings = @ \o coherence.issues]
  ELSE mem

\* from the entry of runAgent to the await of the planning call
Agent2_Plan ==
  /\ pc = "agent2"
  /\ IF MissingPrerequisite(memory)
     THEN /\ Throw("agent2", "MissingPrositAller")
          /\ UNCHANGED << memory, onLogCalls, llmCalls >>
     ELSE /\ log(memory, A2(<< <<"thought", 90>>, <<"thought", 91>>, <<"action", 94>> >>))
          /\ llmCalls' = Append(llmCalls, Call("agent2", "plan", memory.prositAller))
          /\ pc' = "a2_plan"
          /\ UNCHANGED << trace, error >>
  /\ doc' = NULL
  /\ plan' = NoPlan
  /\ v1' = NoValidation
  /\ v2' = NoValidation
  /\ UNCHANGED << aborted, parked, active, call, ret, result, request, mode, skipPR, llmAnswers, renderCalls, slotWrites,
                  onStepCalls, response >>

\* the plan arrives: parseJSON, two observations, check_coherence(pa, null),
\* the drafting call
Agent2_Draft ==
  /\ pc = "a2_plan"
  /\ \E ans \in PlanAnswers :
       /\ llmAnswers' = Append(llmAnswers, Heard(ans))
       /\ IF ~PlanOutcome(ans).ok
          THEN /\ Throw("agent2", PlanOutcome(ans).err)
               /\ UNCHANGED << memory, onLogCalls, plan, llmCalls >>
          ELSE LET planned == << <<"observation", 104>>, <<"observation", 105>>,
                                <<"action", 108>> >>
               IN  /\ plan' = ans.raw.value
                   /\ IF check_coherence(memory.prositAller, NULL).threw
                      THEN /\ log(memory, A2(planned))
                           /\ Throw("agent2", "TypeError")
                           /\ UNCHANGED llmCalls
                      ELSE /\ log(memory, A2(planned \o
                                << <<"observation", 110>>, <<"thought", 113>>,
                                   <<"action", 116>> >>))
                           /\ llmCalls' = Append(llmCalls,
                                Call("agent2", "draft", memory.prositAller))
                           /\ pc' = "a2_draft"
                           /\ UNCHANGED << trace, error >>
  /\ UNCHANGED << aborted, parked, active, call, ret, result, request, mode, skipPR, doc, v1, v2, renderCalls, slotWrites,
                  onStepCalls, response >>

\* the draft arrives: parseJSON, validate_structure, check_coherence(pa, pr),
\* then either the correction call or the write to memory and the call of
\* the generator
Agent2_Validate ==
  /\ pc = "a2_draft"
  /\ \E ans \in DraftAnswers("agent2") :
       /\ llmAnswers' = Append(llmAnswers, Heard(ans))
       /\ IF ~JsonOutcome(ans).ok
          THEN /\ Throw("agent2", JsonOutcome(ans).err)
               /\ UNCHANGED << memory, onLogCalls, doc, v1, llmCalls, renderCalls,
                               slotWrites >>
          ELSE LET pa == memory.prositAller
                   pr == WithTheme(ans.raw.value, pa["theme"])
                   v  == validate_structure_PR(pr)
                   coherence == check_coherence(pa, pr)
                   checked == << <<"action", 164>>, <<"observation", 166>>,
                                 <<"action", 169>> >>
                   warned == Warned(memory, coherence)
                   compared == checked \o
                     (IF ~coherence.coherent THEN << <<"observation", 172>> >>
                                             ELSE << <<"observation", 175>> >>)
               IN  /\ doc' = pr
                   /\ v1' = v
                   /\ IF coherence.threw
                      THEN /\ log(memory, A2(checked))
                           /\ Throw("agent2", "TypeError")
                           /\ UNCHANGED << llmCalls, renderCalls, slotWrites >>
                      ELSE IF NeedsFix(v)
                      THEN /\ log(warned, A2(compared \o
                                << <<"thought", 180>>, <<"action", 183>> >>))
                           /\ llmCalls' = Append(llmCalls, Call("agent2", "fix", pr))
                           /\ pc' = "a2_fix"
                           /\ UNCHANGED << renderCalls, slotWrites, trace, error >>
                      ELSE /\ Deliver("agent2", warned, pr, A2(compared \o
                                << <<"thought", 197>>, <<"action", 202>>,
                                   <<"action", 206>> >>))
                           /\ UNCHANGED llmCalls
  /\ UNCHANGED << aborted, parked, active, call, ret, result, request, mode, skipPR, plan, v2, onStepCalls, response >>

\* the corrected document arrives: parseJSON, merge, second validation,
\* write to memory and call of the generator
Agent2_Fix ==
  /\ pc = "a2_fix"
  /\ \E ans \in FixAnswers("agent2") :
       /\ llmAnswers' = Append(llmAnswers, Heard(ans))
       /\ IF ~JsonOutcome(ans).ok
          THEN /\ Throw("agent2", JsonOutcome(ans).err)
               /\ UNCHANGED << memory, onLogCalls, doc, v2, renderCalls, slotWrites >>
          ELSE LET pr == Spread(doc, ans.raw.value)
               IN  /\ doc' = pr
                   /\ v2' = validate_structure_PR(pr)
                   /\ Deliver("agent2", memory, pr,
                        A2(<< <<"observation", 195>>, <<"action", 202>>,
                              <<"action", 206>> >>))
  /\ UNCHANGED << aborted, parked, active, call, ret, result, request, mode, skipPR, plan, v1, llmCalls, onStepCalls, response >>

\* the generator returns or throws
Agent2_Done ==
  /\ pc = "a2_render"
  /\ \E rendered \in BOOLEAN :
       IF ~rendered
       THEN /\ Throw("agent2", "RenderError")
            /\ UNCHANGED << memory, onLogCalls >>
       ELSE /\ Complete("agent2", A2(<< <<"result", 214>> >>), "after2")
            /\ UNCHANGED error
  /\ UNCHANGED << aborted, parked, active, call, ret, result, request, mode, skipPR, doc, plan, v1, v2, llmCalls, llmAnswers,
                  renderCalls, slotWrites, onStepCalls, response >>

(***************************************************************************)
(* Agent 3 (agents/agent3_cer.js): runAgent(memory, onLog).                *)
(***************************************************************************)
\* (variant: the Prosit Aller is preferred to the Prosit Retour)
SourceData_paFirst(mem) ==
  IF mem.prositAller # NULL THEN mem.prositAller
  ELSE IF mem.prositRetour # NULL THEN mem.prositRetour
  ELSE EmptyDoc

\* const sourceData = hasPR ? memory.prositRetour : (memory.prositAller || {})
\* neither slot is assigned while Agent 3 runs, so the constant is read
\* from memory wherever the code uses it
SourceData(mem) ==
  IF mem.prositRetour # NULL THEN mem.prositRetour
  ELSE IF mem.prositAller # NULL THEN mem.prositAller
  ELSE EmptyDoc

\* from the entry of runAgent to the await of the planning call;
\* analyze_memory only feeds the text of the observation, except for the
\* extra observation when there are coherence warnings
Agent3_Plan ==
  /\ pc = "agent3"
  /\ log(memory, A3(
       << <<"thought", 95>>, <<"thought", 96>>, <<"action", 102>>,
          <<"observation", 104>> >>
       \o (IF Len(memory.coherenceWarnings) > 0
           THEN << <<"observation", 106>> >> ELSE <<>>)
       \o << <<"action", 109>> >>))
  /\ llmCalls' = Append(llmCalls, Call("agent3", "plan", SourceData(memory)))
  /\ pc' = "a3_plan"
  /\ doc' = NULL
  /\ plan' = NoPlan
  /\ v1' = NoValidation
  /\ v2' = NoValidation
  /\ UNCHANGED << aborted, parked, active, call, ret, result, request, mode, skipPR, llmAnswers, renderCalls, slotWrites, trace,
                  onStepCalls, error, response >>

\* the plan arrives: parseJSON, two observations, the drafting call
Agent3_Draft ==
  /\ pc = "a3_plan"
  /\ \E ans \in PlanAnswers :
       /\ llmAnswers' = Append(llmAnswers, Heard(ans))
       /\ IF ~PlanOutcome(ans).ok
          THEN /\ Throw("agent3", PlanOutcome(ans).err)
               /\ UNCHANGED << memory, onLogCalls, plan, llmCalls >>
          ELSE /\ plan' = ans.raw.value
               /\ log(memory, A3(<< <<"observation", 122>>, <<"observation", 123>>,
                                    <<"thought", 126>>, <<"action", 129>> >>))
               /\ llmCalls' = Append(llmCalls,
                    Call("agent3", "draft", SourceData(memory)))
               /\ pc' = "a3_draft"
               /\ UNCHANGED << trace, error >>
  /\ UNCHANGED << aborted, parked, active, call, ret, result, request, mode, skipPR, doc, v1, v2, renderCalls, slotWrites,
                  onStepCalls, response >>

\* the draft arrives: parseJSON, validate_structure, then either the
\* correction call or the write to memory and the call of the generator
Agent3_Validate ==
  /\ pc = "a3_draft"
  /\ \E ans \in DraftAnswers("agent3") :
       /\ llmAnswers' = Append(llmAnswers, Heard(ans))
       /\ IF ~JsonOutcome(ans).ok
          THEN /\ Throw("agent3", JsonOutcome(ans).err)
               /\ UNCHANGED << memory, onLogCalls, doc, v1, llmCalls, renderCalls,
                               slotWrites >>
          ELSE LET cer == WithTheme(ans.raw.value,
                            OrElse(SourceData(memory)["theme"], memory.theme))
                   v   == validate_structure_CER(cer)
                   checked == << <<"action", 205>>, <<"observation", 207>> >>
               IN  /\ doc' = cer
                   /\ v1' = v
                   /\ IF NeedsFix(v)
                      THEN /\ log(memory, A3(checked \o
                                << <<"thought", 211>>, <<"action", 214>> >>))
                           /\ llmCalls' = Append(llmCalls, Call("agent3", "fix", cer))
                           /\ pc' = "a3_fix"
                           /\ UNCHANGED << renderCalls, slotWrites, trace, error >>
                      ELSE /\ Deliver("agent3", memory, cer, A3(checked \o
                                << <<"thought", 230>>, <<"action", 235>>,
                                   <<"action", 239>> >>))
                           /\ UNCHANGED llmCalls
  /\ UNCHANGED << aborted, parked, active, call, ret, result, request, mode, skipPR, plan, v2, onStepCalls, response >>

\* the corrected document arrives: parseJSON, merge, second validation,
\* write to memory and call of the generator
Agent3_Fix ==
  /\ pc = "a3_fix"
  /\ \E ans \in FixAnswers("agent3") :
       /\ llmAnswers' = Append(llmAnswers, Heard(ans))
       /\ IF ~JsonOutcome(ans).ok
          THEN /\ Throw("agent3", JsonOutcome(ans).err)
               /\ UNCHANGED << memory, onLogCalls, doc, v2, renderCalls, slotWrites >>
          ELSE LET cer == Spread(doc, ans.raw.value)
               IN  /\ doc' = cer
                   /\ v2' = validate_structure_CER(cer)
                   /\ Deliver("agent3", memory, cer,
                        A3(<< <<"observation", 227>>, <<"thought", 228>>,
                              <<"action", 235>>, <<"action", 239>> >>))
  /\ UNCHANGED << aborted, parked, active, call, ret, result, request, mode, skipPR, plan, v1, llmCalls, onStepCalls, response >>

\* the generator returns or throws
Agent3_Done ==
  /\ pc = "a3_render"
  /\ \E rendered \in BOOLEAN :
       IF ~rendered
       THEN /\ Throw("agent3", "RenderError")
            /\ UNCHANGED << memory, onLogCalls >>
       ELSE /\ Complete("agent3", A3(<< <<"result", 247>> >>), "after3")
            /\ UNCHANGED error
  /\ UNCHANGED << aborted, parked, active, call, ret, result, request, mode, skipPR, doc, plan, v1, v2, llmCalls, llmAnswers,
                  renderCalls, slotWrites, onStepCalls, response >>

(***************************************************************************)
(* The run.                                                                *)
(***************************************************************************)
Next ==
  \/ Run_Start
  \/ Agent1_Plan \/ Agent1_Draft \/ Agent1_Validate \/ Agent1_Fix \/ Agent1_Done
  \/ Run_AfterAgent1
  \/ Run_Stage2
  \/ Agent2_Plan \/ Agent2_Draft \/ Agent2_Validate \/ Agent2_Fix \/ Agent2_Done
  \/ Run_AfterAgent2
  \/ Run_Stage3
  \/ Agent3_Plan \/ Agent3_Draft \/ Agent3_Validate \/ Agent3_Fix \/ Agent3_Done
  \/ Run_Finish
  \/ Server_Done
  \/ Server_Error

Spec == Init /\ [][Next]_vars

(***************************************************************************)
(* Vocabulary of the properties.                                           *)
(***************************************************************************)
IsPrefix(a, b) == Len(a) <= Len(b) /\ SubSeq(b, 1, Len(a)) = a

Last(seq) == seq[Len(seq)]

\* the agents whose runAgent has been called, in order of the calls
Started == LET calls == SelectSeq(trace, LAMBDA e : e.ev = "call")
           IN  [i \in 1..Len(calls) |-> calls[i].agent]

HasReturned(agent) == \E i \in 1..Len(trace) : trace[i] = Ev("return", agent)

\* the agent whose runAgent was called last; once it has executed its first
\* statement (pc has left the entry of runAgent) doc, plan, v1 and v2 are its
\* local variables
Current == Last(Started)

CallsOf(agent) == SelectSeq(llmCalls, LAMBDA c : c.agent = agent)

Purposes(calls) == [i \in 1..Len(calls) |-> calls[i].purpose]

StageOf(agent) ==
  CASE agent = "agent1" -> 1 [] agent = "agent2" -> 2 [] agent = "agent3" -> 3
    [] OTHER -> 0

\* a validation result that has been computed
Computed(v) == v.score >= 0

\* the text of an answer could not be extracted as JSON
ExtractionFailed(heard) == ~heard.threw /\ (~heard.found \/ ~heard.parses)

\* this step received the answer of an LLM call
Answered == Len(llmAnswers') = Len(llmAnswers) + 1

Aborted == pc \in {"threw", "end"} /\ error # "none"

(***************************************************************************)
(* C1  In a run with mode "from_pr", Agent 1 and Agent 2 never execute:    *)
(* no log entry is tagged agent1 or agent2, no LLM call and no generator   *)
(* call is made by them, and the document Agent 3 sends to the LLM as its  *)
(* source is the Prosit Retour of the request, which memory still holds    *)
(* unmodified.                                                             *)
(***************************************************************************)
C1_FromPrRunsAgent3Only ==
  mode = "from_pr" =>
    /\ \A i \in 1..Len(memory.logs) : memory.logs[i].agent \in {"orchestrator", "agent3"}
    /\ \A i \in 1..Len(llmCalls) : llmCalls[i].agent = "agent3"
    /\ \A i \in 1..Len(renderCalls) : renderCalls[i].agent = "agent3"
    /\ \A i \in 1..Len(trace) : trace[i].agent = "agent3"
    /\ request.prositRetour # NULL =>
         /\ memory.prositRetour = request.prositRetour
         /\ \A i \in 1..Len(llmCalls) :
              llmCalls[i].purpose \in {"plan", "draft"} =>
                llmCalls[i].input = request.prositRetour

\* a from_pr run with an imported Prosit Retour in which Agent 3 finished
C1_Witness ==
  /\ mode = "from_pr"
  /\ request.prositRetour # NULL
  /\ HasReturned("agent3")
  /\ response.event = "done"

(***************************************************************************)
(* C2  The agents a run executes and their order are fixed by mode and     *)
(* skipPR: full runs Agent 1, Agent 2, Agent 3; from_pa runs Agent 2,      *)
(* Agent 3; Agent 2 is left out in full / from_pa exactly when skipPR;     *)
(* from_pr runs Agent 3 only whatever skipPR.  An agent is called only     *)
(* after the previous one has returned, so the log entries of the agents   *)
(* appear in stage order.                                                  *)
(***************************************************************************)
ExpectedAgents ==
  CASE mode = "full" /\ ~skipPR    -> << "agent1", "agent2", "agent3" >>
    [] mode = "full" /\ skipPR     -> << "agent1", "agent3" >>
    [] mode = "from_pa" /\ ~skipPR -> << "agent2", "agent3" >>
    [] mode = "from_pa" /\ skipPR  -> << "agent3" >>
    [] mode = "from_pr"            -> << "agent3" >>

C2_StagesInOrder ==
  mode \in {"full", "from_pa", "from_pr"} =>
    /\ IsPrefix(Started, ExpectedAgents)
    /\ pc \in {"agent3", "returned"} \/ response.event = "done" => Started = ExpectedAgents
    /\ \A i \in 2..Len(trace) : trace[i].ev = "call" => trace[i - 1].ev = "return"
    /\ \A i, j \in 1..Len(memory.logs) :
         (i < j /\ memory.logs[i].agent # "orchestrator"
                /\ memory.logs[j].agent # "orchestrator")
           => StageOf(memory.logs[i].agent) <= StageOf(memory.logs[j].agent)

\* a full run without skipPR in which the three agents were executed
C2_Witness ==
  /\ mode = "full"
  /\ ~skipPR
  /\ response.event = "done"
  /\ Started = << "agent1", "agent2", "agent3" >>

(***************************************************************************)
(* C3  When an agent fails with a fatal error (LLM call, extraction,       *)
(* generator, missing prerequisite), that error is what run throws to its  *)
(* caller and what the caller reports; no later agent is started, no       *)
(* further LLM or generator call is made, and the documents and file       *)
(* paths of the agents that had returned stay as they were.                *)
(***************************************************************************)
C3_FatalErrorAbortsRun ==
  [][ error' # "none" =>
        /\ pc' \in {"threw", "end"}
        /\ error = "none" => \E a \in Agents : trace' = Append(trace, Ev("throw", a))
        /\ error # "none" => error' = error /\ trace' = trace /\ memory' = memory
        /\ llmCalls' = llmCalls
        /\ renderCalls' = renderCalls
        /\ \A a \in Agents :
             HasReturned(a) =>
               /\ memory'[Slot(a)] = memory[Slot(a)]
               /\ memory'.files[Slot(a)] = memory.files[Slot(a)]
        /\ response'.event # "none" =>
             response'.event = "error" /\ response'.message = error'
    ]_vars

\* Agent 1 had returned with its document and file, a later agent failed and
\* the server has reported the error
C3_Witness ==
  /\ HasReturned("agent1")
  /\ memory.files.prositAller # NoFile
  /\ Last(trace).ev = "throw"
  /\ response.event = "error"

(***************************************************************************)
(* C4  Agent 2 called while memory holds no Prosit Aller throws the        *)
(* missing-prerequisite error at once: no LLM call is made, no log entry   *)
(* is emitted, memory (slots, files, warnings) is untouched, and the run   *)
(* aborts without calling Agent 3.                                         *)
(***************************************************************************)
C4_MissingPrositAllerAborts ==
  [][ /\ pc = "agent2" /\ memory.prositAller = NULL =>
           /\ error' = "MissingPrositAller"
           /\ pc' = "threw"
           /\ llmCalls' = llmCalls
           /\ memory' = memory
           /\ onLogCalls' = onLogCalls
      /\ error = "MissingPrositAller" =>
           /\ trace' = trace
           /\ \A i \in 1..Len(trace) : trace[i].agent # "agent3"
           /\ \A i \in 1..Len(memory.logs) : memory.logs[i].agent = "orchestrator"
    ]_vars

\* the run was aborted by Agent 2 for want of a Prosit Aller
C4_Witness ==
  /\ error = "MissingPrositAller"
  /\ Last(trace) = Ev("throw", "agent2")
  /\ memory.prositAller = NULL
  /\ response.event = "error"

(***************************************************************************)
(* C5  In every agent the correction call is made exactly once when the    *)
(* first validation found the draft invalid and never when it found it     *)
(* valid; no agent makes a second correction call, so an agent makes at    *)
(* most three LLM calls: plan, draft, correction.                          *)
(***************************************************************************)
C5_OneRepairAtMost ==
  /\ \A a \in Agents :
       IsPrefix(Purposes(CallsOf(a)), << "plan", "draft", "fix" >>)
  /\ Len(Started) > 0 /\ pc \notin {"agent1", "agent2", "agent3"} =>
       LET fixes == SelectSeq(CallsOf(Current), LAMBDA c : c.purpose = "fix")
       IN  /\ Computed(v1) /\ ~v1.valid => Len(fixes) = 1
           /\ Computed(v1) /\ v1.valid => Len(fixes) = 0
           /\ ~Computed(v1) => Len(fixes) = 0

\* the correction left the document invalid and the agent went on to the
\* generator with its three calls made
C5_Witness ==
  /\ pc = "a1_render"
  /\ Computed(v1) /\ ~v1.valid
  /\ Computed(v2) /\ ~v2.valid
  /\ Purposes(CallsOf("agent1")) = << "plan", "draft", "fix" >>

(***************************************************************************)
(* C6  An agent whose document is still invalid after the correction       *)
(* (second validation fails) writes its slot and calls the generator all   *)
(* the same; when the generator returns, the file path is recorded, the    *)
(* agent returns and run goes on to the next stage.  The second            *)
(* validation never blocks or aborts.                                      *)
(***************************************************************************)
C6_InvalidAfterRepairStillDelivers ==
  [][ LET failedTwice == Computed(v2) /\ ~v2.valid
          failsNow    == ~Computed(v2) /\ Computed(v2') /\ ~v2'.valid
      IN  /\ failsNow =>
               /\ error' = "none"
               /\ pc' = AwaitRender(Current)
               /\ memory'[Slot(Current)] = doc'
               /\ renderCalls' = Append(renderCalls, Render(Current, doc'))
          /\ failedTwice /\ pc = AwaitRender(Current) /\ error' = "none" =>
               /\ memory'.files[Slot(Current)] = OutputPath(Current)
               /\ memory'[Slot(Current)] = doc
               /\ trace' = Append(trace, Ev("return", Current))
          /\ failedTwice /\ pc = "after1" => pc' = "stage2"
          /\ failedTwice /\ pc = "stage2" =>
               pc' = IF mode = "from_pr" \/ skipPR THEN "stage3" ELSE "agent2"
          /\ failedTwice /\ pc = "after2" => pc' = "stage3"
          /\ failedTwice /\ pc = "stage3" => pc' = "agent3"
          /\ failedTwice /\ pc = "after3" => pc' = "returned"
    ]_vars

\* Agent 2 returned with a document that failed both validations, its file
\* is recorded and run has called Agent 3
C6_Witness ==
  /\ pc = "agent3"
  /\ Computed(v2) /\ ~v2.valid
  /\ HasReturned("agent2")
  /\ memory.prositRetour = doc
  /\ memory.files.prositRetour = OutputPath("agent2")

(***************************************************************************)
(* C7  In every agent, when the planning answer cannot be extracted as     *)
(* JSON, the agent does not abort: it goes on to the drafting call with    *)
(* an empty plan object.                                                   *)
(***************************************************************************)
C7_PlanFailureContinues ==
  [][ /\ pc \in {"a1_plan", "a2_plan", "a3_plan"}
      /\ Answered
      /\ ExtractionFailed(Last(llmAnswers'))
      => /\ error' = "none"
         /\ pc' \in {"a1_draft", "a2_draft", "a3_draft"}
         /\ plan' = Plan("undef")
    ]_vars

(***************************************************************************)
(* C7 as the code has it: in every agent, when the planning answer cannot  *)
(* be extracted as JSON, parseJSON throws out of the agent and of run: the *)
(* drafting call is not made, memory is untouched and the run aborts with  *)
(* the extraction error.                                                   *)
(***************************************************************************)
C7_PlanFailureAborts ==
  [][ /\ pc \in {"a1_plan", "a2_plan", "a3_plan"}
      /\ Answered
      /\ ExtractionFailed(Last(llmAnswers'))
      => /\ pc' = "threw"
         /\ error' = (IF Last(llmAnswers').found THEN "SyntaxError" ELSE "NoJsonFound")
         /\ trace' = Append(trace, Ev("throw", Current))
         /\ llmCalls' = llmCalls
         /\ memory' = memory
         /\ plan' = plan
    ]_vars

\* a run aborted by the planning answer of Agent 3, after Agent 1 returned
C7_Witness ==
  /\ pc = "threw"
  /\ HasReturned("agent1")
  /\ Last(llmCalls).purpose = "plan"
  /\ Last(llmCalls).agent = "agent3"
  /\ Len(llmAnswers) = Len(llmCalls)
  /\ ExtractionFailed(Last(llmAnswers))

(***************************************************************************)
(* C8  When the drafting answer cannot be extracted, the agent makes no    *)
(* further LLM call (no second draft, no correction), writes nothing to    *)
(* its slot, to the file map or to the warnings, and the extraction error  *)
(* aborts the run.                                                         *)
(***************************************************************************)
C8_DraftFailureAborts ==
  [][ /\ ( /\ pc \in {"a1_draft", "a2_draft", "a3_draft"}
           /\ Answered
           /\ ExtractionFailed(Last(llmAnswers'))
           => /\ pc' = "threw"
              /\ error' = (IF Last(llmAnswers').found THEN "SyntaxError" ELSE "NoJsonFound")
              /\ llmCalls' = llmCalls
              /\ renderCalls' = renderCalls
              /\ slotWrites' = slotWrites
              /\ memory' = memory )
      /\ ( Aborted => llmCalls' = llmCalls /\ memory' = memory /\ error' = error )
    ]_vars

\* a run aborted by the drafting answer of Agent 2
C8_Witness ==
  /\ pc = "threw"
  /\ Len(llmCalls) > 0
  /\ Last(llmCalls).purpose = "draft"
  /\ Last(llmCalls).agent = "agent2"
  /\ Len(llmAnswers) = Len(llmCalls)
  /\ ExtractionFailed(Last(llmAnswers))
  /\ memory.prositRetour = request.prositRetour

(***************************************************************************)
(* C9  During one run each of the three slots is populated at most once,   *)
(* in stage order: a slot that already holds a document, written by an     *)
(* agent or supplied by the caller at creation, is never written again.    *)
(***************************************************************************)
C9_FilledSlotNeverWritten ==
  [][ \A a \in Agents :
        memory[Slot(a)] # NULL => memory'[Slot(a)] = memory[Slot(a)] ]_vars

(***************************************************************************)
(* C9 as the code has it: during one run each agent assigns its own slot   *)
(* at most once and the assignments happen in stage order (prositAller,    *)
(* prositRetour, cer); a slot changes only by the assignment of the agent  *)
(* that owns it, so a slot an agent has written is never written again.    *)
(* A document supplied by the caller is replaced when the agent owning     *)
(* its slot runs.                                                          *)
(***************************************************************************)
SlotRank(slot) ==
  CASE slot = "prositAller" -> 1 [] slot = "prositRetour" -> 2 [] slot = "cer" -> 3

C9_EachAgentWritesItsSlotOnce ==
  [][ /\ \A i, j \in 1..Len(slotWrites') :
           i < j => SlotRank(slotWrites'[i]) < SlotRank(slotWrites'[j])
      /\ \A slot \in {"prositAller", "prositRetour", "cer"} :
           memory'[slot] # memory[slot] =>
             /\ slotWrites' = Append(slotWrites, slot)
             /\ slot = CASE Current = "agent1" -> "prositAller"
                         [] Current = "agent2" -> "prositRetour"
                         [] Current = "agent3" -> "cer"
    ]_vars

\* a full run given a Prosit Aller by the caller: Agent 1 replaced it, and
\* the three slots were written in order
C9_Witness ==
  /\ request.prositAller # NULL
  /\ memory.prositAller # request.prositAller
  /\ slotWrites = << "prositAller", "prositRetour", "cer" >>
  /\ memory.cer # NULL

(***************************************************************************)
(* C10  Across every step of a run the log and the warning list only grow  *)
(* at the end: the earlier log (warning list) is a prefix of the later     *)
(* one.  Every entry an agent emits through its callback carries the tag   *)
(* of that agent, and the entries are handed to onLog once each, in the    *)
(* order of the log.                                                       *)
(***************************************************************************)
C10_LogAndWarningsAppendOnly ==
  [][ /\ IsPrefix(memory.logs, memory'.logs)
      /\ IsPrefix(memory.coherenceWarnings, memory'.coherenceWarnings)
      /\ IsPrefix(onLogCalls, onLogCalls')
      /\ onLogCalls' = memory'.logs
      /\ \A i \in 1..Len(memory'.logs) :
           memory'.logs[i].msg.file = SourceOf(memory'.logs[i].agent)
    ]_vars

\* a finished run with entries of the three agents and coherence warnings
C10_Witness ==
  /\ response.event = "done"
  /\ Len(memory.coherenceWarnings) > 0
  /\ \A a \in Agents : \E i \in 1..Len(memory.logs) : memory.logs[i].agent = a
  /\ Len(onLogCalls) > 40

(***************************************************************************)
(* C11  Agent 2 and Agent 3 each run check_coherence on their upstream     *)
(* document against their own draft; every issue of a non-coherent result  *)
(* is appended to memory.coherenceWarnings, and a non-coherent result      *)
(* never aborts the agent or the run.                                      *)
(***************************************************************************)
\* the step in which the agent accepts its draft and validates it
DraftChecked(agent) ==
  /\ pc = (CASE agent = "agent1" -> "a1_draft" [] agent = "agent2" -> "a2_draft"
             [] agent = "agent3" -> "a3_draft")
  /\ Computed(v1')

\* the document an agent writes from
Upstream(agent, mem) ==
  CASE agent = "agent2" -> mem.prositAller
    [] agent = "agent3" -> SourceData(mem)

C11_Stage2AndStage3AppendIssues ==
  [][ \A a \in {"agent2", "agent3"} :
        DraftChecked(a) =>
          LET c == check_coherence(Upstream(a, memory), doc')
          IN  ~c.threw =>
                /\ memory'.coherenceWarnings = memory.coherenceWarnings \o c.issues
                /\ error' = "none"
    ]_vars

(***************************************************************************)
(* C11 as the code has it: only Agent 2 runs check_coherence on its        *)
(* upstream document (the Prosit Aller) against its own draft; every       *)
(* issue of a non-coherent result is appended to                           *)
(* memory.coherenceWarnings, in order, and the agent goes on to the        *)
(* correction or to the generator.  Agent 3 runs no coherence check: the   *)
(* warning list changes in no step of Agent 3, and in no other step than   *)
(* the one in which Agent 2 checks its draft.                              *)
(***************************************************************************)
C11_OnlyStage2AppendsIssues ==
  [][ /\ DraftChecked("agent2") =>
           LET c == check_coherence(memory.prositAller, doc')
           IN  ~c.threw =>
                 /\ memory'.coherenceWarnings = memory.coherenceWarnings \o c.issues
                 /\ error' = "none"
                 /\ pc' \in {"a2_fix", "a2_render"}
      /\ memory'.coherenceWarnings # memory.coherenceWarnings => DraftChecked("agent2")
    ]_vars

\* a run that ended with done although the Prosit Retour disagrees with the
\* Prosit Aller on theme, count and terms: the three issues are the warnings
C11_Witness ==
  /\ response.event = "done"
  /\ memory.prositRetour = PRIncoherent
  /\ memory.prositAller # NULL
  /\ memory.coherenceWarnings = check_coherence(memory.prositAller, PRIncoherent).issues
  /\ Len(memory.coherenceWarnings) = 3
  /\ HasReturned("agent3")

(***************************************************************************)
(* C12  When Agent 1 produced a Prosit Aller of theme "Cloud migration"    *)
(* and the draft of Agent 2 has theme "Unrelated topic", the object run    *)
(* returns holds a warning list with a theme-mismatch message naming both  *)
(* themes; in general the returned object exposes the three documents,     *)
(* the file map, the full log and the warning list.                        *)
(***************************************************************************)
\* the keys under which a returned object would carry the warning list
WarningKeys == {"coherenceWarnings", "warnings"}

ThemeMismatch == Issue("theme", << ThemeCloud, ThemeOther >>)

Holds(seq, x) == \E i \in 1..Len(seq) : seq[i] = x

C12_ResultHoldsWarnings ==
  pc = "returned" =>
    /\ Len(result) = 1
    /\ {"prositAller", "prositRetour", "cer", "files", "logs"} \subseteq DOMAIN result[1]
    /\ \E k \in WarningKeys :
         /\ k \in DOMAIN result[1]
         /\ result[1][k] = memory.coherenceWarnings

(***************************************************************************)
(* C12 as the code has it: in that scenario the theme-mismatch message     *)
(* naming both themes is appended to memory.coherenceWarnings and is in    *)
(* the warnings of the done event the server sends.  The object run        *)
(* returns exposes the three documents, the file map and the full log of   *)
(* the memory, and no warning list: the warnings are read from the         *)
(* memory the caller passed in.                                            *)
(***************************************************************************)
C12_WarningsInMemoryNotInResult ==
  [][ /\ ( /\ DraftChecked("agent2")
           /\ memory.prositAller["theme"] = Text(ThemeCloud)
           /\ doc'["theme"] = Text(ThemeOther)
           => Holds(memory'.coherenceWarnings, ThemeMismatch) )
      /\ ( pc' = "returned" =>
             /\ result' = << [ prositAller  |-> memory'.prositAller,
                               prositRetour |-> memory'.prositRetour,
                               cer          |-> memory'.cer,
                               files        |-> memory'.files,
                               logs         |-> memory'.logs ] >>
             /\ DOMAIN result'[1] \cap WarningKeys = {} )
      /\ ( pc' # "returned" /\ pc' # "end" => result' = <<>> )
      /\ ( response'.event = "done" =>
             /\ response'.warnings = memory'.coherenceWarnings
             /\ Len(result') = 1
             /\ Holds(memory'.coherenceWarnings, ThemeMismatch)
                  => Holds(response'.warnings, ThemeMismatch) )
    ]_vars

\* a full run in which Agent 1 wrote the Prosit Aller, Agent 2 drafted a
\* Prosit Retour of the other theme, and run returned
C12_Witness ==
  /\ pc = "returned"
  /\ mode = "full"
  /\ slotWrites = << "prositAller", "prositRetour", "cer" >>
  /\ memory.prositAller["theme"] = Text(ThemeCloud)
  /\ memory.prositRetour["theme"] = Text(ThemeOther)
  /\ Holds(memory.coherenceWarnings, ThemeMismatch)
  /\ Len(result) = 1
  /\ result[1].logs = memory.logs

(***************************************************************************)
(* C13  Every run ends by appending a summary entry (type "result",        *)
(* tagged orchestrator) that states the number of generated files and the  *)
(* number of warnings, whichever agents were executed or skipped and       *)
(* however the run ends.                                                   *)
(***************************************************************************)
IsSummary(entry) == entry.agent = "orchestrator" /\ entry.type = "result"

C13_EveryRunLogsSummary ==
  pc = "end" => \E i \in 1..Len(memory.logs) : IsSummary(memory.logs[i])

(***************************************************************************)
(* C13 as the code has it: every run that returns, whichever agents were   *)
(* executed or skipped, has appended exactly one summary entry stating     *)
(* the number of generated files and the number of warnings; it is the     *)
(* last entry of the log, or the last but one when there are warnings      *)
(* (an observation listing them follows).  A run aborted by an exception   *)
(* appends no summary entry.                                               *)
(***************************************************************************)
C13_ReturnedRunLogsSummary ==
  LET summaries == SelectSeq(memory.logs, IsSummary)
      n == Len(memory.logs)
      w == Len(memory.coherenceWarnings)
      done == pc = "returned" \/ response.event = "done"
  IN  /\ done =>
           /\ Len(summaries) = 1
           /\ summaries[1].msg.generated =
                Cardinality({a \in Agents : memory.files[Slot(a)] = OutputPath(a)})
           /\ summaries[1].msg.warnings = w
           /\ IF w = 0 THEN memory.logs[n] = summaries[1]
              ELSE /\ memory.logs[n - 1] = summaries[1]
                   /\ memory.logs[n] = Entry("orchestrator", "observation",
                                             "orchestrator.js", 161)
      /\ ~done => Len(summaries) = 0

\* a run that skipped Agent 1 and Agent 2 and returned: one file, no warning
C13_Witness ==
  /\ response.event = "done"
  /\ mode = "from_pa" /\ skipPR
  /\ Len(llmCalls) > 0
  /\ IsSummary(Last(memory.logs))
  /\ Last(memory.logs).msg.generated = 1
  /\ Last(memory.logs).msg.warnings = 0

(***************************************************************************)
(* C14  After the correction of any agent, every top-level field of the    *)
(* document that is not named in the errors of the first validation has    *)
(* exactly the value it had before the correction, whatever JSON the       *)
(* correction call returned.                                               *)
(***************************************************************************)
\* the step in which the agent merges the corrected document
Corrected == pc \in {"a1_fix", "a2_fix", "a3_fix"} /\ Computed(v2')

C14_UnflaggedFieldsRetained ==
  [][ Corrected =>
        \A f \in Fields :
          (~\E i \in 1..Len(v1.errors) : v1.errors[i] = f) => doc'[f] = doc[f]
    ]_vars

(***************************************************************************)
(* C14 as the code has it: after the correction of any agent, every        *)
(* top-level field that the JSON returned by the correction call does not  *)
(* hold has exactly the value it had before, and every field it holds has  *)
(* the returned value, whether the first validation named the field or     *)
(* not; the merged document is the one written to memory.                  *)
(***************************************************************************)
C14_AbsentFieldsRetained ==
  [][ Corrected =>
        /\ \E ans \in FixAnswers(Current) :
             LET fixed == ans.raw.value
             IN  /\ ~ans.threw /\ ans.raw.found /\ ans.raw.parses
                 /\ \A f \in Fields :
                      doc'[f] = IF fixed[f].k = "undef" THEN doc[f] ELSE fixed[f]
        /\ memory'[Slot(Current)] = doc'
    ]_vars

\* Agent 1: the correction gave the keywords, which the validation named,
\* and a short contexte, which it did not: both are in the document, the
\* other fields are those of the draft
C14_Witness ==
  /\ pc = "a1_render"
  /\ Computed(v2)
  /\ v1.errors = << "mots_cles" >>
  /\ doc["mots_cles"] = Arr(Keywords)
  /\ doc["contexte"] = Str(10, FALSE)
  /\ doc["problematique"] = PAValid["problematique"]
  /\ doc["plan_action"] = PAValid["plan_action"]

(***************************************************************************)
(* The tools called on their own.  A tool is a pure function of its        *)
(* arguments: one behaviour is one call, with arguments drawn from the     *)
(* sets below, and no run of the pipeline is in progress.                  *)
(***************************************************************************)
RunVars == << request, memory, mode, skipPR, pc, doc, plan, v1, v2, llmCalls,
              llmAnswers, renderCalls, slotWrites, trace, onLogCalls,
              onStepCalls, error, result, response, aborted, parked, active >>

NoRun ==
  /\ request = [theme |-> Undef, prositAller |-> NULL, prositRetour |-> NULL]
  /\ memory = createMemory(request)
  /\ mode = "full"
  /\ skipPR = FALSE
  /\ pc = "tool"
  /\ doc = NULL
  /\ plan = NoPlan
  /\ v1 = NoValidation
  /\ v2 = NoValidation
  /\ llmCalls = <<>>
  /\ llmAnswers = <<>>
  /\ renderCalls = <<>>
  /\ slotWrites = <<>>
  /\ trace = <<>>
  /\ onLogCalls = <<>>
  /\ onStepCalls = <<>>
  /\ error = "none"
  /\ result = <<>>
  /\ response = NoResponse
  /\ aborted = NotAborted
  /\ parked = NoParked
  /\ active = 1

(***************************************************************************)
(* validate_structure(data) called on documents built rule by rule: the    *)
(* fields of the rules in bad hold a value of the given kind that breaks   *)
(* the rule, the other fields hold the smallest value that passes it.      *)
(***************************************************************************)
RulesOf(fn) ==
  CASE fn = "validate_structure_PA"  -> RulesPA
    [] fn = "validate_structure_PR"  -> RulesPR
    [] fn = "validate_structure_CER" -> RulesCER

Good(r) ==
  CASE r.check = "arr" -> Arr(Elems(r.min))
    [] r.check = "str" -> Str(r.min, FALSE)
    [] r.check = "qst" -> Str(10, TRUE)
    [] r.check = "obj" -> Obj(SubSeq(Keywords, 1, r.min))

BadKinds == {"undef", "null", "short", "type", "num"}

Bad(r, kind) ==
  CASE kind = "undef" -> Undef
    [] kind = "null"  -> Null
    [] kind = "num"   -> Num
    [] kind = "short" ->
         (CASE r.check = "arr" -> Arr(Elems(r.min - 1))
            [] r.check = "str" -> Str(r.min - 1, FALSE)
            [] r.check = "qst" -> Str(10, FALSE)
            [] r.check = "obj" -> Obj(SubSeq(Keywords, 1, r.min - 1)))
    [] kind = "type"  ->
         (CASE r.check = "arr" -> Str(50, FALSE)
            [] r.check = "str" -> Arr(Elems(3))
            [] r.check = "qst" -> Arr(Elems(1))
            [] r.check = "obj" -> Str(10, FALSE))

MkDoc(rules, bad, kind) ==
  [f \in Fields |->
     IF \E i \in 1..Len(rules) : rules[i].field = f
     THEN LET i == CHOOSE j \in 1..Len(rules) : rules[j].field = f
          IN  IF i \in bad THEN Bad(rules[i], kind) ELSE Good(rules[i])
     ELSE Undef]

\* a JSON array as root: it has index keys only, so data[r.field] is
\* undefined for every rule
ArrayRoot == [f \in Fields |-> Undef]

ValidateFns ==
  {"validate_structure_PA", "validate_structure_PR", "validate_structure_CER"}

ValidateCalls ==
  { [fn |-> fn, root |-> "object", data |-> MkDoc(RulesOf(fn), bad, kind),
     bad |-> bad, kind |-> kind] :
      fn \in ValidateFns, bad \in SUBSET (1..Len(RulesCER)), kind \in BadKinds }
  \cup
  { [fn |-> fn, root |-> "array", data |-> ArrayRoot,
     bad |-> 1..Len(RulesCER), kind |-> "undef"] : fn \in ValidateFns }

InitValidate ==
  /\ NoRun
  /\ call \in {c \in ValidateCalls : c.bad \subseteq 1..Len(RulesOf(c.fn))}
  /\ ret = Pending

Tool_validate ==
  /\ call.fn \in ValidateFns
  /\ ret = Pending
  /\ ret' = IF ValidateThrows(RulesOf(call.fn), call.data)
            THEN Threw("TypeError")
            ELSE Returned(Validate(RulesOf(call.fn), call.data))
  /\ UNCHANGED call
  /\ UNCHANGED RunVars

SpecValidate == InitValidate /\ [][Tool_validate]_vars

(***************************************************************************)
(* C15  validate_structure returns, for every document and each of the     *)
(* three rule tables: errors, the messages of exactly the rules whose      *)
(* predicate is false, in the order of the table; score, the integer       *)
(* round(100 * (rules - failed) / rules), between 0 and 100; valid, true   *)
(* exactly when errors is empty, which is exactly when score is 100.       *)
(***************************************************************************)
C15_ValidateResult ==
  call.fn \in ValidateFns /\ ret.status = "returned" =>
    LET rules == RulesOf(call.fn)
        n == Len(rules)
        idx == SelectSeq([i \in 1..n |-> i], LAMBDA i : i \in call.bad)
        expected == [j \in 1..Len(idx) |-> rules[idx[j]].field]
        passed == n - Len(expected)
        r == ret.value
    IN  /\ r.errors = expected
        /\ r.score \in 0..100
        /\ 2 * (r.score * n - 100 * passed) <= n
        /\ 2 * (100 * passed - r.score * n) < n
        /\ r.valid <=> Len(r.errors) = 0
        /\ r.valid <=> r.score = 100

\* one rule of eight fails: 87.5 is rounded to 88
C15_Witness ==
  /\ call.fn = "validate_structure_PA"
  /\ call.bad = {2}
  /\ call.kind = "short"
  /\ ret.status = "returned"
  /\ ret.value = [valid |-> FALSE, errors |-> << "contexte" >>, score |-> 88]

(***************************************************************************)
(* C16  validate_structure never throws and never modifies the document    *)
(* it is given, for any document (object or array root) whose fields are   *)
(* missing, null or of an unexpected type; a field that is missing or      *)
(* null is evaluated as the empty string and so fails its rule, and an     *)
(* empty document scores 0.                                                *)
(***************************************************************************)
C16_ValidateTotalAndPure ==
  [][ call.fn \in ValidateFns /\ ret = Pending =>
        /\ ret'.status = "returned"
        /\ call' = call
        /\ LET rules == RulesOf(call.fn)
               r == ret'.value
           IN  /\ call.kind \in {"undef", "null"} =>
                    \A i \in call.bad :
                      \E j \in 1..Len(r.errors) : r.errors[j] = rules[i].field
               /\ (\A f \in Fields : call.data[f].k \in {"undef", "null"}) =>
                    /\ r.score = 0
                    /\ Len(r.errors) = Len(rules)
                    /\ ~r.valid
    ]_vars

\* a Prosit Retour whose nine fields are null, definitions included
C16_Witness ==
  /\ call.fn = "validate_structure_PR"
  /\ call.root = "object"
  /\ call.kind = "null"
  /\ call.bad = 1..9
  /\ call.data["definitions"] = Null
  /\ ret.status = "returned"
  /\ ret.value.score = 0

(***************************************************************************)
(* check_coherence(pa, pr) called on its own: every pair of an upstream    *)
(* document (or null) and a downstream document (or null) built from a     *)
(* theme, a number of keywords or definitions and a number of hypotheses   *)
(* or validations.                                                         *)
(***************************************************************************)
MaxHypos == 3

UpstreamDocs ==
  { NULL, PAStringKw } \cup
  { Doc([ theme |-> theme,
          mots_cles |-> Arr(SubSeq(Keywords, 1, k)),
          pistes_solution |-> Arr(Elems(n)) ]) :
      theme \in {Undef, Text(ThemeCloud)}, k \in 0..Len(Keywords), n \in 0..MaxHypos }

DownstreamDocs ==
  { NULL } \cup
  { Doc([ theme |-> theme,
          definitions |-> Obj(SubSeq(Keywords, 1, d)),
          validation_hypotheses |-> Arr(Elems(m)) ]) :
      theme \in {Undef, Text(ThemeCloud), Text(ThemeOther)},
      d \in {0, 4, Len(Keywords)}, m \in 0..MaxHypos }

InitCoherence ==
  /\ NoRun
  /\ call \in { [fn |-> "check_coherence", pa |-> pa, pr |-> pr] :
                  pa \in UpstreamDocs, pr \in DownstreamDocs }
  /\ ret = Pending

Tool_check_coherence ==
  /\ call.fn = "check_coherence"
  /\ ret = Pending
  /\ LET c == check_coherence(call.pa, call.pr)
     IN  ret' = IF c.threw THEN Threw("TypeError")
                ELSE Returned([coherent |-> c.coherent, issues |-> c.issues])
  /\ UNCHANGED call
  /\ UNCHANGED RunVars

SpecCoherence == InitCoherence /\ [][Tool_check_coherence]_vars

(***************************************************************************)
(* C17  check_coherence(pa, null): when pa is null the result is           *)
(* coherent = false; when pa is present the result is coherent = true      *)
(* with no issue, for every upstream document, because no theme, count or  *)
(* terms check applies against an absent downstream document.              *)
(***************************************************************************)
\* stated for the upstream documents whose mots_cles is a list, as the
\* Prosit Aller prompt asks; on a non-empty string the call throws
C17_AbsentDownstreamIsCoherent ==
  /\ call.fn = "check_coherence" /\ call.pr = NULL /\ ret # Pending
  /\ call.pa = NULL \/ call.pa["mots_cles"].k = "arr"
  =>
    /\ ret.status = "returned"
    /\ IF call.pa = NULL
       THEN ~ret.value.coherent
       ELSE ret.value.coherent /\ ret.value.issues = <<>>

(***************************************************************************)
(* C18  With both documents present, check_coherence flags the count       *)
(* issue whenever the number M of validation_hypotheses of the downstream  *)
(* document is smaller than the number N of pistes_solution of the         *)
(* upstream one, M = 0 included, and does not flag it when M >= N.         *)
(***************************************************************************)
CountFlagged == \E i \in 1..Len(ret.value.issues) : ret.value.issues[i].id = "count"

BothPresent ==
  /\ call.fn = "check_coherence"
  /\ call.pa # NULL /\ call.pr # NULL
  /\ ret.status = "returned"

C18_CountFlaggedWheneverFewer ==
  BothPresent =>
    (CountFlagged <=>
       call.pr["validation_hypotheses"].len < call.pa["pistes_solution"].len)

(***************************************************************************)
(* C18 as the code has it: with both documents present, the count issue    *)
(* is flagged exactly when 0 < M < N; it is not flagged when M >= N, nor   *)
(* when the downstream document lists no validation (M = 0).               *)
(***************************************************************************)
C18_CountFlaggedWhenFewerButSome ==
  BothPresent =>
    LET m == call.pr["validation_hypotheses"].len
        n == call.pa["pistes_solution"].len
    IN  /\ CountFlagged <=> (0 < m /\ m < n)
        /\ ret.value.coherent <=> ret.value.issues = <<>>

\* two validations for three hypotheses: flagged
C18_Witness ==
  /\ BothPresent
  /\ call.pa["pistes_solution"].len = 3
  /\ call.pr["validation_hypotheses"].len = 2
  /\ CountFlagged
  /\ ~ret.value.coherent

(***************************************************************************)
(* parse_json.js read character by character.  A text is a sequence of     *)
(* one-character strings.                                                  *)
(***************************************************************************)
\* the character U+0060, which a TLA+ string cannot hold, under a name
BackQuote == "BQ"

\* \s of the regular expressions, on the characters the texts use
IsSpace(c) == c \in {" ", "\n"}

Opening == {"{", "["}

Closing == {"}", "]"}

\* the first index >= i of s that holds no white space, Len(s) + 1 if none
RECURSIVE SkipSpace(_, _)
SkipSpace(s, i) ==
  IF i <= Len(s) /\ IsSpace(s[i]) THEN SkipSpace(s, i + 1) ELSE i

\* s.slice(i - 1): from the 1-based index i to the end
From(s, i) == SubSeq(s, i, Len(s))

\* /FENCEjson/i at index i
FenceJsonAt(s, i) ==
  /\ i + 6 <= Len(s)
  /\ SubSeq(s, i, i + 2) = << BackQuote, BackQuote, BackQuote >>
  /\ s[i + 3] \in {"j", "J"} /\ s[i + 4] \in {"s", "S"}
  /\ s[i + 5] \in {"o", "O"} /\ s[i + 6] \in {"n", "N"}

FenceAt(s, i) == i + 2 <= Len(s) /\ SubSeq(s, i, i + 2) = << BackQuote, BackQuote, BackQuote >>

\* raw.replace(/FENCEjson\s*/gi (FENCE is three backquotes), EMPTY)
RECURSIVE StripFenceJson(_, _)
StripFenceJson(s, i) ==
  IF i > Len(s) THEN <<>>
  ELSE IF FenceJsonAt(s, i) THEN StripFenceJson(s, SkipSpace(s, i + 7))
  ELSE << s[i] >> \o StripFenceJson(s, i + 1)

\* .replace(/FENCE\s*/g, EMPTY)
RECURSIVE StripFence(_, _)
StripFence(s, i) ==
  IF i > Len(s) THEN <<>>
  ELSE IF FenceAt(s, i) THEN StripFence(s, SkipSpace(s, i + 3))
  ELSE << s[i] >> \o StripFence(s, i + 1)

\* s.trimEnd()
RECURSIVE TrimEnd(_)
TrimEnd(s) ==
  IF Len(s) > 0 /\ IsSpace(s[Len(s)]) THEN TrimEnd(SubSeq(s, 1, Len(s) - 1)) ELSE s

\* s.trim()
Trim(s) == TrimEnd(From(s, SkipSpace(s, 1)))

\* s.search(/[{\[]/) + 1: the index of the first opening bracket, 0 if none;
\* before it, s.search(/[{\[Q]/) + 1, Q the double quote: a search that
\* also stops at the start of a string
RECURSIVE SearchOpening_orQuote(_, _), SearchOpening(_, _)
SearchOpening_orQuote(s, i) ==
  IF i > Len(s) THEN 0
  ELSE IF s[i] \in Opening \cup {"\""} THEN i
  ELSE SearchOpening_orQuote(s, i + 1)

SearchOpening(s, i) ==
  IF i > Len(s) THEN 0
  ELSE IF s[i] \in Opening THEN i
  ELSE SearchOpening(s, i + 1)

\* the for loop of parseJSON from index i on: the index at which depth
\* comes back to 0, 0 if it never does (end === -1)
RECURSIVE MatchEnd(_, _, _, _, _)
MatchEnd(s, i, depth, inStr, escape) ==
  IF i > Len(s) THEN 0
  ELSE IF escape THEN MatchEnd(s, i + 1, depth, inStr, FALSE)
  ELSE IF s[i] = "\\" THEN MatchEnd(s, i + 1, depth, inStr, TRUE)
  ELSE IF s[i] = "\"" THEN MatchEnd(s, i + 1, depth, ~inStr, FALSE)
  ELSE IF inStr THEN MatchEnd(s, i + 1, depth, inStr, FALSE)
  ELSE LET opened == IF s[i] \in Opening THEN depth + 1 ELSE depth
       IN  IF s[i] \in Closing
           THEN (IF opened - 1 = 0 THEN i
                 ELSE MatchEnd(s, i + 1, opened - 1, inStr, FALSE))
           ELSE MatchEnd(s, i + 1, opened, inStr, FALSE)

\* s.replace(/,\s*([}\]])/g, $1)
RECURSIVE StripTrailingCommas(_, _)
StripTrailingCommas(s, i) ==
  IF i > Len(s) THEN <<>>
  ELSE LET j == SkipSpace(s, i + 1)
       IN  IF s[i] = "," /\ j <= Len(s) /\ s[j] \in Closing
           THEN << s[j] >> \o StripTrailingCommas(s, j + 1)
           ELSE << s[i] >> \o StripTrailingCommas(s, i + 1)

\* the for loop of repairTruncated from index i on: the number of
\* characters copied to result and the stack of closers, top last
RECURSIVE Replay(_, _, _, _, _)
Replay(s, i, stack, inStr, escape) ==
  IF i > Len(s) THEN [copied |-> Len(s), stack |-> stack]
  ELSE IF escape THEN Replay(s, i + 1, stack, inStr, FALSE)
  ELSE IF s[i] = "\\" THEN Replay(s, i + 1, stack, inStr, TRUE)
  ELSE IF s[i] = "\"" THEN
         (IF inStr /\ Len(stack) = 0 THEN [copied |-> i, stack |-> stack]
          ELSE Replay(s, i + 1, stack, ~inStr, FALSE))
  ELSE IF inStr THEN Replay(s, i + 1, stack, inStr, FALSE)
  ELSE IF s[i] = "{" THEN Replay(s, i + 1, Append(stack, "}"), inStr, FALSE)
  ELSE IF s[i] = "[" THEN Replay(s, i + 1, Append(stack, "]"), inStr, FALSE)
  ELSE IF s[i] \in Closing /\ Len(stack) > 0
       THEN Replay(s, i + 1, SubSeq(stack, 1, Len(stack) - 1), inStr, FALSE)
  ELSE Replay(s, i + 1, stack, inStr, FALSE)

\* .replace(/,\s*$/, EMPTY)
DropLastComma(s) ==
  LET t == TrimEnd(s)
  IN  IF Len(t) > 0 /\ t[Len(t)] = "," THEN SubSeq(t, 1, Len(t) - 1) ELSE s

\* .replace(/:\s*$/, REPL) where REPL is a colon, a space and two quotes
FillLastColon(s) ==
  LET t == TrimEnd(s)
  IN  IF Len(t) > 0 /\ t[Len(t)] = ":"
      THEN SubSeq(t, 1, Len(t) - 1) \o << ":", " ", "\"", "\"" >>
      ELSE s

\* the index of the last double quote of s, 0 if none
RECURSIVE LastQuote(_, _)
LastQuote(s, i) ==
  IF i = 0 THEN 0 ELSE IF s[i] = "\"" THEN i ELSE LastQuote(s, i - 1)

\* .replace(/Q[^Q]*$/, Q...Q) where Q is the double quote
CloseLastQuote(s) ==
  LET q == LastQuote(s, Len(s))
  IN  IF q = 0 THEN s
      ELSE SubSeq(s, 1, q - 1) \o << "\"", ".", ".", ".", "\"" >>

\* while (stack.length > 0) result += stack.pop()
RECURSIVE PopAll(_)
PopAll(stack) ==
  IF Len(stack) = 0 THEN <<>>
  ELSE << stack[Len(stack)] >> \o PopAll(SubSeq(stack, 1, Len(stack) - 1))

repairTruncated(s) ==
  LET r == Replay(s, 1, <<>>, FALSE, FALSE)
      copied == SubSeq(s, 1, r.copied)
  IN  CloseLastQuote(FillLastColon(DropLastComma(TrimEnd(copied)))) \o PopAll(r.stack)


(* JSON.parse on the grammar the texts use: objects, arrays, strings with
   the one-character escapes, integers and the three literals. A parsed
   value is the sequence of its tokens, so that two texts parse to the same
   value exactly when their token sequences are equal; white space between
   tokens is dropped and escapes are decoded. The texts hold no object with
   a repeated key, no fraction, no exponent and no \u escape. *)
Tok(t, v) == [t |-> t, v |-> v]

Punct(c) == Tok("punct", << c >>)

NoParse == [ok |-> FALSE, pos |-> 0, out |-> <<>>]

Done(pos, out) == [ok |-> TRUE, pos |-> pos, out |-> out]

Digits == {"0", "1", "2", "3", "4", "5", "6", "7", "8", "9"}

Literals == { << "t", "r", "u", "e" >>, << "f", "a", "l", "s", "e" >>, << "n", "u", "l", "l" >> }

Escapes == {"\"", "\\", "/", "b", "f", "n", "r", "t"}

\* the character an escape stands for; backspace has no TLA+ notation
Unescape(c) ==
  CASE c = "n" -> "\n"
    [] c = "t" -> "\t"
    [] c = "r" -> "\r"
    [] c = "f" -> "\f"
    [] c = "b" -> "BS"
    [] OTHER -> c

\* the characters of a string from index i on, up to its closing quote
RECURSIVE StringBody(_, _, _)
StringBody(s, i, acc) ==
  IF i > Len(s) THEN NoParse
  ELSE IF s[i] = "\"" THEN Done(i + 1, << Tok("str", acc) >>)
  ELSE IF s[i] = "\\" THEN
         (IF i + 1 <= Len(s) /\ s[i + 1] \in Escapes
          THEN StringBody(s, i + 2, Append(acc, Unescape(s[i + 1])))
          ELSE NoParse)
  ELSE IF s[i] \in {"\n", "\t", "\r", "\f"} THEN NoParse
  ELSE StringBody(s, i + 1, Append(acc, s[i]))

ParseString(s, i) ==
  IF i <= Len(s) /\ s[i] = "\"" THEN StringBody(s, i + 1, <<>>) ELSE NoParse

\* the first index >= i of s that holds no digit
RECURSIVE SkipDigits(_, _)
SkipDigits(s, i) ==
  IF i <= Len(s) /\ s[i] \in Digits THEN SkipDigits(s, i + 1) ELSE i

\* -?(0|[1-9][0-9]*)
ParseNumber(s, i) ==
  LET d == IF s[i] = "-" THEN i + 1 ELSE i
      e == IF d <= Len(s) /\ s[d] = "0" THEN d + 1 ELSE SkipDigits(s, d)
  IN  IF e = d THEN NoParse ELSE Done(e, << Tok("num", SubSeq(s, i, e - 1)) >>)

ParseLiteral(s, i) ==
  IF \E lit \in Literals : SubSeq(s, i, i + Len(lit) - 1) = lit
  THEN LET lit == CHOOSE l \in Literals : SubSeq(s, i, i + Len(l) - 1) = l
       IN  Done(i + Len(lit), << Tok("lit", lit) >>)
  ELSE NoParse

RECURSIVE ParseValue(_, _), ParseMembers(_, _, _), ParseElements(_, _, _)
\* the members of an object from the key at index i on
ParseMembers(s, i, acc) ==
  LET k == ParseString(s, i)
      c == SkipSpace(s, k.pos)
      v == ParseValue(s, SkipSpace(s, c + 1))
      e == SkipSpace(s, v.pos)
      out == acc \o k.out \o << Punct(":") >> \o v.out
  IN  IF ~k.ok \/ c > Len(s) \/ s[c] # ":" THEN NoParse
      ELSE IF ~v.ok \/ e > Len(s) THEN NoParse
      ELSE IF s[e] = "}" THEN Done(e + 1, Append(out, Punct("}")))
      ELSE IF s[e] = "," THEN ParseMembers(s, SkipSpace(s, e + 1), Append(out, Punct(",")))
      ELSE NoParse

\* the elements of an array from the value at index i on
ParseElements(s, i, acc) ==
  LET v == ParseValue(s, i)
      e == SkipSpace(s, v.pos)
      out == acc \o v.out
  IN  IF ~v.ok \/ e > Len(s) THEN NoParse
      ELSE IF s[e] = "]" THEN Done(e + 1, Append(out, Punct("]")))
      ELSE IF s[e] = "," THEN ParseElements(s, SkipSpace(s, e + 1), Append(out, Punct(",")))
      ELSE NoParse

ParseValue(s, i) ==
  IF i > Len(s) THEN NoParse
  ELSE IF s[i] = "{" THEN
         LET j == SkipSpace(s, i + 1)
         IN  IF j <= Len(s) /\ s[j] = "}" THEN Done(j + 1, << Punct("{"), Punct("}") >>)
             ELSE ParseMembers(s, j, << Punct("{") >>)
  ELSE IF s[i] = "[" THEN
         LET j == SkipSpace(s, i + 1)
         IN  IF j <= Len(s) /\ s[j] = "]" THEN Done(j + 1, << Punct("["), Punct("]") >>)
             ELSE ParseElements(s, j, << Punct("[") >>)
  ELSE IF s[i] = "\"" THEN ParseString(s, i)
  ELSE IF s[i] \in Digits \cup {"-"} THEN ParseNumber(s, i)
  ELSE ParseLiteral(s, i)

\* JSON.parse(text): one value with nothing but white space around it
JSONparse(text) ==
  LET v == ParseValue(text, SkipSpace(text, 1))
  IN  IF v.ok /\ SkipSpace(text, v.pos) > Len(text) THEN v ELSE NoParse

NotString == "parseJSON: entree non-string"

NoJsonFound == "Aucun JSON trouve dans la reponse LLM"

\* the start === -1 test of parseJSON, as start <= 0
NoJson_offByOne(start) == start <= 1

NoJson(start) == start = 0

\* JSON.parse(s) as an outcome: the value, or the SyntaxError it throws
Parsed(text) ==
  IF JSONparse(text).ok THEN Returned(JSONparse(text).out) ELSE Threw("SyntaxError")

\* parseJSON(raw) on the characters of a string raw
parseJSON_text(raw) ==
  LET stripped == Trim(StripFence(StripFenceJson(raw, 1), 1))
      start == SearchOpening(stripped, 1)
      s == From(stripped, start)
      end == MatchEnd(s, 1, 0, FALSE, FALSE)
      cut == IF end = 0 THEN repairTruncated(s) ELSE SubSeq(s, 1, end)
      first == StripTrailingCommas(cut, 1)
      second == StripTrailingCommas(repairTruncated(first), 1)
  IN  IF NoJson(start) THEN Threw(NoJsonFound)
      ELSE IF JSONparse(first).ok THEN Parsed(first)
      ELSE Parsed(second)


(***************************************************************************)
(* The texts parseJSON is applied to: valid JSON objects and arrays, alone, *)
(* wrapped in prose and code fences as an LLM answers them, and cut at     *)
(* every length as an answer that reached its token limit.                *)
(***************************************************************************)
\* an object with one string
TextFlat ==
  << "{", "\"", "a", "\"", ":", "\"", "b", "\"", "}" >>

\* an array of two numbers
TextArray ==
  << "[", "1", ",", "2", "0", "]" >>

\* an object holding an array holding an object
TextNested ==
  << "{", "\"", "a", "\"", ":", "[", "1", ",", "{", "\"", "b", "\"", ":",
     "\"", "c", "\"", "}", "]", "}" >>

\* literals, with white space after the separators
TextSpaced ==
  << "{", "\"", "a", "\"", ":", " ", "t", "r", "u", "e", ",", " ", "\"", "n",
     "\"", ":", " ", "n", "u", "l", "l", "}" >>

\* a string value that holds a comma followed by a closing brace
TextCommaBrace ==
  << "{", "\"", "a", "\"", ":", "\"", "x", ",", "}", "\"", "}" >>

\* a string value that holds three backquotes
TextFenceInString ==
  << "{", "\"", "a", "\"", ":", "\"", BackQuote, BackQuote, BackQuote, "\"",
     "}" >>

\* a string value that holds brackets
TextBracketInString ==
  << "{", "\"", "a", "\"", ":", "\"", "]", "[", "\"", "}" >>

\* a string value that holds an escaped quote
TextEscapedQuote ==
  << "{", "\"", "a", "\"", ":", "\"", "q", "\\", "\"", "r", "\"", "}" >>

\* an object of numbers and an array
TextNumbers ==
  << "{", "\"", "a", "\"", ":", "1", ",", "\"", "b", "\"", ":", "[", "1",
     ",", "2", "]", "}" >>

JsonTexts ==
  { TextFlat,
    TextArray,
    TextNested,
    TextSpaced,
    TextCommaBrace,
    TextFenceInString,
    TextBracketInString,
    TextEscapedQuote,
    TextNumbers }

\* prose before the JSON, with no bracket in it
ProseIntro ==
  << "V", "o", "i", "c", "i", " ", ":", " " >>

\* prose before the JSON that holds brackets of its own
ProseNote ==
  << "N", "o", "t", "e", " ", "[", "1", "]", " ", ":", " " >>

\* prose after the JSON
ProseEnd ==
  << " ", "F", "i", "n", " ", "[", "o", "k", "]", "." >>

\* the opening fence with its language tag
FenceJsonOpen ==
  << BackQuote, BackQuote, BackQuote, "j", "s", "o", "n", "\n" >>

\* the opening fence without a tag
FenceOpen ==
  << BackQuote, BackQuote, BackQuote, "\n" >>

\* the closing fence
FenceClose ==
  << "\n", BackQuote, BackQuote, BackQuote >>
ProseBefore == { <<>>, ProseIntro, ProseNote }

ProseAfter == { <<>>, ProseEnd }

\* the fence markers around the JSON: none, tagged, untagged
Fences ==
  { << <<>>, <<>> >>, << FenceJsonOpen, FenceClose >>, << FenceOpen, FenceClose >> }

ParseCall(kind, isString, raw, s, before) ==
  [fn |-> "parseJSON", kind |-> kind, isString |-> isString, raw |-> raw,
   s |-> s, before |-> before]

\* prose_before + fence + s + fence + prose_after
WrappedCalls ==
  { ParseCall("wrapped", TRUE, before \o f[1] \o s \o f[2] \o after, s, before) :
      s \in JsonTexts, before \in ProseBefore, f \in Fences, after \in ProseAfter }

\* s.slice(0, k) for every k
TruncatedCalls ==
  UNION { { ParseCall("truncated", TRUE, SubSeq(s, 1, k), s, <<>>) : k \in 0..Len(s) } :
            s \in JsonTexts }

\* a JSON value that is a bare string
BareString ==
  << "\"", "a", "b", "c", "\"" >>

\* a JSON value that is a bare number
BareNumber ==
  << "4", "2" >>

\* a bare number inside a code fence
BareFenced ==
  << BackQuote, BackQuote, BackQuote, "j", "s", "o", "n", "\n", "4", "2",
     "\n", BackQuote, BackQuote, BackQuote >>

\* white space only
BareSpaces ==
  << " ", " ", "\n" >>

\* a bare string that holds brackets
BareStringBracket ==
  << "\"", "a", " ", "[", "1", "]", "\"" >>

\* answers with no object and no array as their JSON value
BareCalls ==
  { ParseCall("bare", TRUE, raw, <<>>, <<>>) :
      raw \in { <<>>, BareString, BareNumber, BareFenced, BareSpaces, BareStringBracket } }

\* s with sep written before every closing brace and bracket that stands
\* outside its strings
RECURSIVE InsertCommas(_, _, _, _, _)
InsertCommas(s, i, inStr, escape, sep) ==
  IF i > Len(s) THEN <<>>
  ELSE IF escape THEN << s[i] >> \o InsertCommas(s, i + 1, inStr, FALSE, sep)
  ELSE IF s[i] = "\\" THEN << s[i] >> \o InsertCommas(s, i + 1, inStr, TRUE, sep)
  ELSE IF s[i] = "\"" THEN << s[i] >> \o InsertCommas(s, i + 1, ~inStr, FALSE, sep)
  ELSE IF ~inStr /\ s[i] \in Closing
       THEN sep \o << s[i] >> \o InsertCommas(s, i + 1, inStr, FALSE, sep)
  ELSE << s[i] >> \o InsertCommas(s, i + 1, inStr, FALSE, sep)

\* a trailing comma, alone or followed by white space
CommaSeparators == { << "," >>, << ",", " " >>, << ",", "\n", " " >> }

\* answers with a trailing comma before every closer
CommaCalls ==
  { ParseCall("commas", TRUE, InsertCommas(s, 1, FALSE, FALSE, sep), s, <<>>) :
      s \in JsonTexts, sep \in CommaSeparators }

\* an answer that is no string at all
OtherCalls == { ParseCall("other", FALSE, <<>>, <<>>, <<>>) }

InitExtract ==
  /\ NoRun
  /\ call \in WrappedCalls \cup TruncatedCalls \cup BareCalls \cup CommaCalls
             \cup OtherCalls
  /\ ret = Pending

Tool_parseJSON ==
  /\ call.fn = "parseJSON"
  /\ ret = Pending
  /\ ret' = IF ~call.isString THEN Threw(NotString) ELSE parseJSON_text(call.raw)
  /\ UNCHANGED call
  /\ UNCHANGED RunVars

SpecExtract == InitExtract /\ [][Tool_parseJSON]_vars

Extracted == call.fn = "parseJSON" /\ ret # Pending


(***************************************************************************)
(* C19  For every valid JSON object or array text s, every prose before    *)
(* and after it and optional code fences around it, parseJSON of the       *)
(* wrapped text returns the value JSON.parse(s) returns; the contents of   *)
(* the string values of s (commas, brackets, braces, backquotes) come back *)
(* unchanged.                                                              *)
(***************************************************************************)
\* stated for the prose that holds no bracket of its own: the scan of
\* parseJSON starts at the first bracket of the whole text
C19_ExtractReturnsParse ==
  /\ Extracted /\ call.kind = "wrapped"
  /\ SearchOpening(call.before, 1) = 0
  => ret = Parsed(call.s)

(***************************************************************************)
(* C20  For every valid JSON object or array text s and every k,           *)
(* parseJSON(s.slice(0, k)) ends, and ends in one of three ways: it        *)
(* returns a JSON value, it throws the no-JSON-found error (exactly when   *)
(* the slice holds no opening bracket), or it throws the SyntaxError of    *)
(* JSON.parse on the repaired text.  A returned value is the object or     *)
(* array the slice opens.                                                  *)
(***************************************************************************)
C20_TruncationEndsInValueOrDefinedError ==
  Extracted /\ call.kind = "truncated" =>
    /\ \/ ret.status = "returned"
       \/ ret.status = "threw" /\ ret.error \in {NoJsonFound, "SyntaxError"}
    /\ ret = Threw(NoJsonFound) <=> SearchOpening(call.raw, 1) = 0
    /\ ret.status = "returned" =>
         /\ Len(ret.value) >= 2
         /\ ret.value[1] = Punct(call.raw[SearchOpening(call.raw, 1)])

\* a text cut inside a string value, repaired and parsed
C20_Witness ==
  /\ Extracted /\ call.kind = "truncated"
  /\ Len(call.raw) < Len(call.s)
  /\ MatchEnd(call.raw, 1, 0, FALSE, FALSE) = 0
  /\ ret.status = "returned"


(***************************************************************************)
(* C21  parseJSON throws the no-JSON-found error whenever its input, once  *)
(* the fences are stripped, holds no opening brace and no opening bracket  *)
(* (the empty input, a bare string, a bare number), and the root of every  *)
(* value it returns is an object or an array.                              *)
(***************************************************************************)
Stripped(raw) == Trim(StripFence(StripFenceJson(raw, 1), 1))

HasOpening(s) == \E i \in 1..Len(s) : s[i] \in Opening

C21_NoOpeningIsNoJsonFound ==
  Extracted /\ call.isString =>
    /\ ~HasOpening(Stripped(call.raw)) => ret = Threw(NoJsonFound)
    /\ ret.status = "returned" => ret.value[1] \in {Punct("{"), Punct("[")}

\* a bare string or number, fenced or not, is refused
C21_Witness ==
  /\ Extracted /\ call.kind = "bare"
  /\ Len(Stripped(call.raw)) > 0
  /\ ret = Threw(NoJsonFound)


(***************************************************************************)
(* C22  parseJSON tolerates trailing commas: for every valid JSON object   *)
(* or array text in which a comma, alone or followed by white space, is    *)
(* written before the closers, it returns the value JSON.parse returns on  *)
(* the original text; parseJSON of the text                                *)
(* {a:1,b:[1,2,],} (keys quoted) returns the object {a:1, b:[1,2]}.        *)
(***************************************************************************)
C22_TrailingCommasTolerated ==
  Extracted /\ call.kind = "commas" => ret = Parsed(call.s)


(***************************************************************************)
(* The request is aborted while its run is in progress.  The handler of    *)
(* POST /api/run registers no listener on the connection and run, the      *)
(* agents and callLLM take no abort signal: closing the connection changes *)
(* nothing the run reads.                                                  *)
(***************************************************************************)
\* the awaits of a run: an LLM call or a generator call is in flight
Suspended ==
  pc \in {"a1_plan", "a1_draft", "a1_fix", "a1_render",
          "a2_plan", "a2_draft", "a2_fix", "a2_render",
          "a3_plan", "a3_draft", "a3_fix", "a3_render"}

\* the client closes the connection while a call is in flight
Client_Abort ==
  /\ aborted = NotAborted
  /\ Suspended
  /\ aborted' = pc
  /\ UNCHANGED << parked, active, call, ret, result, request, memory, mode, skipPR,
                  pc, doc, plan, v1, v2, llmCalls, llmAnswers, renderCalls,
                  slotWrites, trace, onLogCalls, onStepCalls, error, response >>

\* (variant: the run checks the connection before every step)
Run_Step_whileConnected == aborted = NotAborted /\ Next

\* a step of the run, whatever the state of the connection
Run_Step == Next

SpecAbort == Init /\ [][Run_Step \/ Client_Abort]_vars

(***************************************************************************)
(* C24  When the request is aborted while a run is in progress, the call   *)
(* in flight is abandoned (its answer is not consumed) and no further      *)
(* stage of the run is started.                                            *)
(***************************************************************************)
C24_AbortStopsRun ==
  [][aborted # NotAborted =>
       /\ llmAnswers' = llmAnswers
       /\ llmCalls' = llmCalls
       /\ renderCalls' = renderCalls
       /\ Started' = Started]_vars

\* as the code stands: an aborted run is never stopped by the abort; it can
\* always take its next step until the handler has ended the response, and
\* nothing but the note of the abort distinguishes it from a run whose
\* connection is open
C24_AbortedRunGoesOn ==
  aborted # NotAborted /\ pc # "end" => ENABLED Run_Step

\* aborted during the first LLM call of Agent 1, the run has gone through
\* the three agents and the handler has written the done event
C24_Witness ==
  /\ aborted = "a1_plan"
  /\ pc = "end"
  /\ response.event = "done"
  /\ Started = << "agent1", "agent2", "agent3" >>
  /\ Len(renderCalls) = 3


(***************************************************************************)
(* callLLM (llm.js) on its own.  A request attempt ends in one of four     *)
(* ways: the candidate text, a body with an error field, a body without    *)
(* candidate parts, or a rejection of fetch or res.json().  An error       *)
(* message is described by what the code looks for in it: the words quota  *)
(* or retry, the word fetch.  call carries the local state of the          *)
(* function: the await it is at, the attempts made and the waits taken.    *)
(***************************************************************************)
MAX_RETRIES == 3

\* const wait = attempt * 8000
WaitUnit == 8000

Outcome(kind, rateWord, fetchWord, status429) ==
  [kind |-> kind, rateWord |-> rateWord, fetchWord |-> fetchWord, status429 |-> status429]

AttemptOutcomes ==
  { Outcome("text", FALSE, FALSE, FALSE), Outcome("empty", FALSE, FALSE, FALSE) }
  \cup { Outcome("apiError", r, f, s) : r \in BOOLEAN, f \in BOOLEAN, s \in BOOLEAN }
  \cup { Outcome("rejected", r, f, FALSE) : r \in BOOLEAN, f \in BOOLEAN }

LLMCall(hasKey, at, attempt, waits, seen) ==
  [fn |-> "callLLM", hasKey |-> hasKey, at |-> at, attempt |-> attempt,
   waits |-> waits, seen |-> seen]

\* (variant: attempt <= MAX_RETRIES in the two retry conditions)
MayRetry_inclusive(attempt) == attempt <= MAX_RETRIES

\* attempt < MAX_RETRIES
MayRetry(attempt) == attempt < MAX_RETRIES

\* const isRateLimit = msg.includes("quota") || msg.includes("retry") || res.status === 429
isRateLimit(o) == o.rateWord \/ o.status429

\* const isTransient = err.message.includes("quota") || ... || err.message.includes("fetch")
isTransient(o) == o.rateWord \/ o.fetchWord

\* the attempt is followed by a wait and another attempt
Retries(o, attempt) ==
  CASE o.kind = "apiError" ->
         \/ isRateLimit(o) /\ MayRetry(attempt)
         \/ isTransient(o) /\ MayRetry(attempt)
    [] o.kind = "rejected" -> isTransient(o) /\ MayRetry(attempt)
    [] OTHER -> FALSE

InitLLM ==
  /\ NoRun
  /\ call \in { LLMCall(k, "entry", 0, <<>>, <<>>) : k \in BOOLEAN }
  /\ ret = Pending

\* from the entry of callLLM to the first await fetch
LLM_Call ==
  /\ call.fn = "callLLM" /\ call.at = "entry"
  /\ IF call.hasKey
     THEN /\ call' = [call EXCEPT !.at = "fetch", !.attempt = 1]
          /\ UNCHANGED ret
     ELSE /\ call' = [call EXCEPT !.at = "done"]
          /\ ret' = Threw("GEMINI_API_KEY manquante")
  /\ UNCHANGED RunVars

\* fetch and res.json() have settled: return, throw, or wait for a retry
LLM_Response ==
  /\ call.fn = "callLLM" /\ call.at = "fetch"
  /\ \E o \in AttemptOutcomes :
       LET seen == Append(call.seen, o)
       IN  IF o.kind = "text"
           THEN /\ call' = [call EXCEPT !.at = "done", !.seen = seen]
                /\ ret' = Returned("text")
           ELSE IF Retries(o, call.attempt)
           THEN /\ call' = [call EXCEPT !.at = "wait", !.seen = seen,
                                        !.waits = Append(@, call.attempt * WaitUnit)]
                /\ UNCHANGED ret
           ELSE /\ call' = [call EXCEPT !.at = "done", !.seen = seen]
                /\ ret' = Threw(o.kind)
  /\ UNCHANGED RunVars

\* the timer of the wait has fired: continue, attempt++, and either the next
\* fetch or, the loop being over, throw lastErr
LLM_Retry ==
  /\ call.fn = "callLLM" /\ call.at = "wait"
  /\ IF call.attempt + 1 <= MAX_RETRIES
     THEN /\ call' = [call EXCEPT !.at = "fetch", !.attempt = @ + 1]
          /\ UNCHANGED ret
     ELSE /\ call' = [call EXCEPT !.at = "done", !.attempt = @ + 1]
          /\ ret' = Threw("lastErr")
  /\ UNCHANGED RunVars

NextLLM == LLM_Call \/ LLM_Response \/ LLM_Retry

\* fetch, res.json() and the timers settle
SpecLLM == InitLLM /\ [][NextLLM]_vars /\ WF_vars(NextLLM)


(***************************************************************************)
(* C25  callLLM makes at most 3 request attempts and always ends by        *)
(* returning text or throwing.  It waits and retries only after a          *)
(* rate-limit or transient failure of an attempt before the third, with    *)
(* waits of 8 s then 16 s; any other failure, and any failure of the third *)
(* attempt, is thrown without a further attempt.                           *)
(***************************************************************************)
Retryable(o) == o.kind \in {"apiError", "rejected"} /\ (isRateLimit(o) \/ isTransient(o))

C25_AtMostThreeAttemptsThenEnds ==
  /\ [](call.fn = "callLLM" =>
          /\ call.attempt <= 3 /\ Len(call.seen) <= 3
          /\ IsPrefix(call.waits, << 8000, 16000 >>)
          /\ \A i \in 1..Len(call.waits) : i < 3 /\ Retryable(call.seen[i])
          /\ call.at = "wait" => Len(call.waits) = Len(call.seen)
          /\ call.at = "done" /\ call.hasKey =>
               /\ Len(call.waits) = Len(call.seen) - 1
               /\ ret = IF Last(call.seen).kind = "text" THEN Returned("text")
                        ELSE Threw(Last(call.seen).kind)
               /\ Last(call.seen).kind # "text" =>
                    ~Retryable(Last(call.seen)) \/ Len(call.seen) = 3
          /\ ret = Pending <=> call.at # "done")
  /\ <>(ret # Pending)

\* two waits, then the failure of the third attempt is thrown although it is
\* a rate limit
C25_Witness ==
  /\ call.fn = "callLLM" /\ call.at = "done"
  /\ call.waits = << 8000, 16000 >>
  /\ ret.status = "threw" /\ Retryable(Last(call.seen))


(***************************************************************************)
(* C26  Within every stage the steps occur in the order Planning,          *)
(* Drafting, Validating, (Repairing), Rendering, Done, and the document    *)
(* slot of the stage is written only after the renderer has returned and   *)
(* the file path has been recorded: whenever a stage has written its slot  *)
(* the file map holds the path of that stage, and a render failure leaves  *)
(* the slot unwritten.                                                     *)
(***************************************************************************)
Wrote(agent) == \E i \in 1..Len(slotWrites) : slotWrites[i] = Slot(agent)

Rendering(agent) == \E i \in 1..Len(renderCalls) : renderCalls[i].agent = agent

Filed(agent) == memory.files[Slot(agent)] # NoFile

Repaired_deep(d, fixed) ==
  [f \in Fields |->
     IF fixed[f].k = "undef" THEN d[f]
     ELSE IF fixed[f].k \in {"arr", "obj"} /\ d[f].k = fixed[f].k
          THEN [fixed[f] EXCEPT !.items = d[f].items \o fixed[f].items,
                                !.len = d[f].len + fixed[f].len]
          ELSE fixed[f]]

\* the document after the correction
Repaired(d, fixed) == Spread(d, fixed)

\* documents before the correction
MergeDocs == {PAValid, PAShort, PAStringKw, PRValid, PRIncoherent, PRShort, CERShort, EmptyDoc}

\* what the correction call may return: the failing key alone, several
\* keys, an object or an array that differs from the one held, a null, a
\* whole document, nothing
MergeFixes ==
  { Doc([mots_cles |-> Arr(Keywords)]),
    Doc([mots_cles |-> Arr(SubSeq(Keywords, 1, 1)), contexte |-> Str(10, FALSE)]),
    Doc([bilan |-> Str(100, FALSE)]),
    Doc([definitions |-> Obj(<< <<"x">>, <<"y">> >>)]),
    Doc([bilan |-> Null, plan_action |-> Arr(<<>>)]),
    Doc([synthese |-> Str(250, FALSE), problematique |-> Str(40, TRUE)]),
    PRValid,
    EmptyDoc }

InitMerge ==
  /\ NoRun
  /\ call \in { [fn |-> "repair", doc |-> d, fixed |-> fx] : d \in MergeDocs, fx \in MergeFixes }
  /\ ret = Pending

Tool_repair ==
  /\ call.fn = "repair"
  /\ ret = Pending
  /\ ret' = Returned(Repaired(call.doc, call.fixed))
  /\ UNCHANGED call
  /\ UNCHANGED RunVars

SpecMerge == InitMerge /\ [][Tool_repair]_vars

(***************************************************************************)
(* C27  The correction merges one level deep only: every top-level key     *)
(* that the extracted correction holds has exactly the value of the        *)
(* correction, replaced as a whole and never merged with the old value;    *)
(* every other top-level key has exactly the value it had; no key of the   *)
(* document is lost.                                                       *)
(***************************************************************************)
Keys(d) == {f \in Fields : d[f].k # "undef"}

C27_RepairMergesTopLevelOnly ==
  call.fn = "repair" /\ ret # Pending =>
    /\ ret.status = "returned"
    /\ \A f \in Keys(call.fixed) : ret.value[f] = call.fixed[f]
    /\ \A f \in Fields \ Keys(call.fixed) : ret.value[f] = call.doc[f]
    /\ Keys(ret.value) = Keys(call.doc) \cup Keys(call.fixed)

\* the correction holds a definitions object with two keys: the six keys
\* the document had under definitions are gone, bilan is kept
C27_Witness ==
  /\ call.fn = "repair" /\ ret # Pending
  /\ call.doc = PRShort
  /\ call.fixed["definitions"] = Obj(<< <<"x">>, <<"y">> >>)
  /\ ret.value["definitions"] = Obj(<< <<"x">>, <<"y">> >>)
  /\ ret.value["bilan"] = PRShort["bilan"]


(***************************************************************************)
(* C28  Truncation repair makes truncated output parseable: for every      *)
(* valid JSON object or array text cut inside or right after a value (not  *)
(* inside a key), the repaired text has every open string, object and      *)
(* array closed, closers appended last in first out, and parses as JSON    *)
(* whose complete members keep their values.                               *)
(***************************************************************************)
\* whether the text ends inside a string
RECURSIVE EndsInString(_, _, _, _)
EndsInString(s, i, inStr, escape) ==
  IF i > Len(s) THEN inStr
  ELSE IF escape THEN EndsInString(s, i + 1, inStr, FALSE)
  ELSE IF s[i] = "\\" THEN EndsInString(s, i + 1, inStr, TRUE)
  ELSE IF s[i] = "\"" THEN EndsInString(s, i + 1, ~inStr, FALSE)
  ELSE EndsInString(s, i + 1, inStr, FALSE)

\* the text is cut right after a number, an object or an array, or inside a
\* number: its last character is a digit or a closer outside the strings
CutAtValue(raw, s) ==
  /\ 0 < Len(raw) /\ Len(raw) < Len(s)
  /\ ~EndsInString(raw, 1, FALSE, FALSE)
  /\ raw[Len(raw)] \in Digits \cup Closing

\* stated for the cuts above, which are among those the claim names
C28_TruncatedTextIsRepaired ==
  Extracted /\ call.kind = "truncated" /\ CutAtValue(call.raw, call.s)
  => /\ ret.status = "returned"
     /\ IsPrefix(SubSeq(ret.value, 1, 2), JSONparse(call.s).out)


(***************************************************************************)
(* C30  Agent 3 is started in every run in which no earlier agent failed,  *)
(* whatever the mode and skipPR, and the source it sends to the LLM is a   *)
(* document that exists: the Prosit Retour when memory holds one,          *)
(* otherwise the Prosit Aller; it makes no LLM call on an empty source     *)
(* when memory holds neither.                                              *)
(***************************************************************************)
\* the calls in which Agent 3 sends its source data to the LLM
SourceCalls ==
  SelectSeq(llmCalls, LAMBDA c : c.agent = "agent3" /\ c.purpose \in {"plan", "draft"})

\* run reaches the call of Agent 3 and makes it, and a run that ended
\* without error has executed Agent 3
Stage3AlwaysStarted ==
  /\ pc = "stage3" => ENABLED Run_Stage3
  /\ response.event = "done" => HasReturned("agent3")

C30_Stage3FromExistingSource ==
  /\ Stage3AlwaysStarted
  /\ \A i \in 1..Len(SourceCalls) :
       /\ memory.prositRetour # NULL \/ memory.prositAller # NULL
       /\ SourceCalls[i].input =
            IF memory.prositRetour # NULL THEN memory.prositRetour
            ELSE memory.prositAller

\* the same, with the empty object as the source of a run whose memory
\* holds neither document
C30_Stage3FromUpstreamOrEmpty ==
  /\ Stage3AlwaysStarted
  /\ \A i \in 1..Len(SourceCalls) :
       SourceCalls[i].input =
         IF memory.prositRetour # NULL THEN memory.prositRetour
         ELSE IF memory.prositAller # NULL THEN memory.prositAller
         ELSE EmptyDoc

\* a run of an unknown mode without any document: Agent 3 has planned and
\* drafted from the empty object and the run ended without error
C30_Witness ==
  /\ mode = "other"
  /\ memory.prositRetour = NULL
  /\ memory.prositAller = NULL
  /\ Len(SourceCalls) = 2
  /\ SourceCalls[1].input = EmptyDoc
  /\ response.event = "done"


(***************************************************************************)
(* Two requests served by one process.  Node runs one handler at a time    *)
(* and changes handler only at an await: while the run of one request      *)
(* waits for callLLM or for a generator, the handler of the other request  *)
(* runs up to its next await.  Every invocation of the handler of POST     *)
(* /api/run builds its own memory with createMemory and passes it to run;  *)
(* orchestrator.js, the agents and the tools keep no variable at module    *)
(* level besides constants.  Both runs write to the directory OUT.         *)
(***************************************************************************)
\* the variables of the run that is executing, as one record
RunState ==
  [ request |-> request,
    memory |-> memory,
    mode |-> mode,
    skipPR |-> skipPR,
    pc |-> pc,
    doc |-> doc,
    plan |-> plan,
    v1 |-> v1,
    v2 |-> v2,
    llmCalls |-> llmCalls,
    llmAnswers |-> llmAnswers,
    renderCalls |-> renderCalls,
    slotWrites |-> slotWrites,
    trace |-> trace,
    onLogCalls |-> onLogCalls,
    onStepCalls |-> onStepCalls,
    error |-> error,
    result |-> result,
    response |-> response ]

\* the run of record r is the one that executes
Resume(r) ==
  /\ request' = r.request
  /\ memory' = r.memory
  /\ mode' = r.mode
  /\ skipPR' = r.skipPR
  /\ pc' = r.pc
  /\ doc' = r.doc
  /\ plan' = r.plan
  /\ v1' = r.v1
  /\ v2' = r.v2
  /\ llmCalls' = r.llmCalls
  /\ llmAnswers' = r.llmAnswers
  /\ renderCalls' = r.renderCalls
  /\ slotWrites' = r.slotWrites
  /\ trace' = r.trace
  /\ onLogCalls' = r.onLogCalls
  /\ onStepCalls' = r.onStepCalls
  /\ error' = r.error
  /\ result' = r.result
  /\ response' = r.response

\* the handler of a request that has been accepted and has not called run
Accepted(theme, pa, pr, m, skip) ==
  [ request |-> [theme |-> theme, prositAller |-> pa, prositRetour |-> pr],
    memory |-> createMemory(
      [ theme |-> OrElse(theme, OrElse(BodyTheme(pa, pr), Text(ThemeServerDefault))),
        prositAller |-> pa, prositRetour |-> pr ]),
    mode |-> m, skipPR |-> skip, pc |-> "run", doc |-> NULL, plan |-> NoPlan,
    v1 |-> NoValidation, v2 |-> NoValidation, llmCalls |-> <<>>,
    llmAnswers |-> <<>>, renderCalls |-> <<>>, slotWrites |-> <<>>,
    trace |-> <<>>, onLogCalls |-> <<>>, onStepCalls |-> <<>>,
    error |-> "none", result |-> <<>>, response |-> NoResponse ]

\* a theme that differs from ThemeCloud in case and punctuation only
ThemeDashed == << "C", "l", "o", "u", "d", "-", "M", "i", "g", "r", "a", "t", "i", "o", "n", "!" >>

\* the first request asks for a full run, the second imports a Prosit
\* Retour; the themes are equal or differ in case and punctuation
InitConcurrent ==
  \E theme2 \in {Text(ThemeCloud), Text(ThemeDashed)} :
    LET first == Accepted(Text(ThemeCloud), NULL, NULL, "full", FALSE) IN
    /\ request = first.request
    /\ memory = first.memory
    /\ mode = first.mode
    /\ skipPR = first.skipPR
    /\ pc = first.pc
    /\ doc = first.doc
    /\ plan = first.plan
    /\ v1 = first.v1
    /\ v2 = first.v2
    /\ llmCalls = first.llmCalls
    /\ llmAnswers = first.llmAnswers
    /\ renderCalls = first.renderCalls
    /\ slotWrites = first.slotWrites
    /\ trace = first.trace
    /\ onLogCalls = first.onLogCalls
    /\ onStepCalls = first.onStepCalls
    /\ error = first.error
    /\ result = first.result
    /\ response = first.response
    /\ parked = Accepted(theme2, NULL, PRValid, "from_pr", FALSE)
    /\ active = 1
    /\ aborted = NotAborted
    /\ call = NoCall
    /\ ret = Pending

\* (variant: coherenceWarnings is one array of the module, shared by the
\* memories of all runs)
Switch_sharedWarnings ==
  /\ parked # NoParked
  /\ Suspended \/ pc = "end"
  /\ parked.pc # "end"
  /\ Resume([parked EXCEPT !.memory.coherenceWarnings = memory.coherenceWarnings])
  /\ parked' = RunState
  /\ active' = 3 - active
  /\ UNCHANGED << aborted, call, ret >>

\* the executing run reaches an await (or its handler returns) and the
\* event loop goes on with the other handler, from where that one waited
Switch ==
  /\ parked # NoParked
  /\ Suspended \/ pc = "end"
  /\ parked.pc # "end"
  /\ Resume(parked)
  /\ parked' = RunState
  /\ active' = 3 - active
  /\ UNCHANGED << aborted, call, ret >>

NextConcurrent == Next \/ Switch

SpecConcurrent == InitConcurrent /\ [][NextConcurrent]_vars


LowerCase == << "a", "b", "c", "d", "e", "f", "g", "h", "i", "j", "k", "l", "m", "n", "o", "p", "q", "r", "s", "t", "u", "v", "w", "x", "y", "z" >>

\* the letter e with an acute accent
EAcute == "EA"

\* .normalize("NFD").replace(/[\u0300-\u036f]/g, "") of one character: the
\* letter without its combining mark
StripAccent(c) == IF c = EAcute THEN "e" ELSE c

AlphaNum(c) == (\E i \in 1..Len(LowerCase) : LowerCase[i] = c) \/ c \in Digits

\* .replace(/[^a-z0-9]+/g, "_"): every maximal run of other characters
\* becomes one underscore
RECURSIVE Underscored(_, _)
Underscored(s, i) ==
  IF i > Len(s) THEN <<>>
  ELSE IF AlphaNum(s[i]) THEN << s[i] >> \o Underscored(s, i + 1)
  ELSE IF i > 1 /\ ~AlphaNum(s[i - 1]) THEN Underscored(s, i + 1)
  ELSE << "_" >> \o Underscored(s, i + 1)

\* .replace(/^_|_$/g, ""): one underscore at the start, one at the end
TrimUnderscores(s) ==
  LET a == IF Len(s) > 0 /\ s[1] = "_" THEN SubSeq(s, 2, Len(s)) ELSE s
  IN  IF Len(a) > 0 /\ a[Len(a)] = "_" THEN SubSeq(a, 1, Len(a) - 1) ELSE a

SlugMax == 35

\* the slug of createMemory
Slug(theme) ==
  LET lower == ToLowerCase(theme)
      plain == [i \in 1..Len(lower) |-> StripAccent(lower[i])]
  IN  Slice0(TrimUnderscores(Underscored(plain, 1)), SlugMax)

\* const OUT = path.join(__dirname, "output"), the outputDir of every memory
OUT == "output"

\* path.join(memory.outputDir, `01_Prosit_Aller_${memory.slug}.docx`) and
\* the paths of Agent 2 and Agent 3
FilePath(agent, mem) ==
  [ dir |-> OUT, name |-> OutputPath(agent), slug |-> Slug(mem.theme.s) ]

\* the files the generators of a run have been called to write
RenderedPaths(calls, mem) ==
  { FilePath(calls[i].agent, mem) : i \in 1..Len(calls) }

(***************************************************************************)
(* C29  Two concurrent runs with the same output directory never render    *)
(* to the same file path: the paths the generators of one run are called   *)
(* with differ from the paths of the other run.                            *)
(***************************************************************************)
C29_ConcurrentPathsDiffer ==
  parked # NoParked =>
    RenderedPaths(renderCalls, memory)
      \cap RenderedPaths(parked.renderCalls, parked.memory) = {}

====
